---------------------------- MODULE Spec2Model ----------------------------
(***************************************************************************)
(* A model of the core of the coco emulator (a TRS-80 Color Computer       *)
(* simulator): the memory-mapped bus (memory.rs), the SAM (sam.rs), the    *)
(* two PIAs (pia.rs), interrupt entry and the run loop (runtime.rs), the   *)
(* peripheral mutexes shared with the display thread (devmgr.rs) and the   *)
(* audio buffer pool, pipeline thread and device callback (sound.rs).      *)
(*                                                                         *)
(* Bytes are 0..255 and words 0..65535; all arithmetic keeps its width.    *)
(* The 64 KiB memory is zero-initialised (devmgr.rs:28) and is kept as the *)
(* finite map of its non-zero bytes.                                       *)
(***************************************************************************)
EXTENDS Integers, Sequences, FiniteSets, TLC

VARIABLES
    raw_ram,        \* Core.raw_ram: the non-zero bytes of the 64 KiB array
    ram_top,        \* Core.ram_top
    acia,           \* Core.acia: NoAcia or the configured ACIA
    pia0,           \* Pia0
    pia1,           \* Pia1
    sam,            \* Sam.config
    chan,           \* the mpsc channel of AudioSample from Pia1 to the pipeline
    reg,            \* Core.reg: the register set
    in_cwai,        \* Core.in_cwai
    in_sync,        \* Core.in_sync
    cart_pending,   \* Core.cart_pending
    err,            \* how the core has ended: "ok" while it runs
    program_start,  \* Core.program_start
    faulted,        \* Core.faulted
    reset_vector,   \* Core.reset_vector: NoVector or the override address
    log,            \* the bus writes and events of the last operation, in order
    op,             \* the last operation: its inputs and what it returned
    locks,          \* the four device mutexes: who holds what, and where each thread is
    pool,           \* SourceBufferPool: the empty and the full source buffers
    pipe,           \* the locals and fields of AudioPipeline::thread
    cb,             \* the captured state of the device's output callback
    out,            \* the output slice of the current callback invocation
    sndr,           \* some Sender of the channel has not been dropped
    process         \* the process: where main and the emulation thread are, the exit status

busvars == <<raw_ram, ram_top, acia, pia0, pia1, sam, chan>>
cpuvars == <<reg, in_cwai, in_sync, cart_pending, err, program_start, faulted, reset_vector>>
lockvars == <<locks>>
audiovars == <<pool, pipe, cb, out, sndr>>

-----------------------------------------------------------------------------
(* Bits and bytes                                                          *)

RECURSIVE AndBits(_, _, _)
AndBits(a, b, n) ==
    IF n = 0 THEN 0
    ELSE (a % 2) * (b % 2) + 2 * AndBits(a \div 2, b \div 2, n - 1)

\* the value F gives to x, x being evaluated once
With(x, F(_)) == CHOOSE y \in {F(v) : v \in {x}} : TRUE

BitAnd(a, b) == CHOOSE r \in {AndBits(x, y, 16) : x \in {a}, y \in {b}} : TRUE
BitOr(a, b)  == CHOOSE r \in {x + y - AndBits(x, y, 16) : x \in {a}, y \in {b}} : TRUE
Not8(a)      == 255 - a
Bit(a, n)    == (a \div (2 ^ n)) % 2 = 1
Hi(w)        == w \div 256
Lo(w)        == w % 256
Word(h, l)   == h * 256 + l

AccessTypes == {"Program", "UserStack", "SystemStack", "Generic", "System"}

-----------------------------------------------------------------------------
(* The 64 KiB memory: a byte that is not in the map is zero.               *)

RamGet(ram, a) == IF a \in DOMAIN ram THEN ram[a] ELSE 0

RamSet(ram, a, b) ==
    IF b = 0
    THEN [x \in DOMAIN ram \ {a} |-> ram[x]]
    ELSE [x \in DOMAIN ram \cup {a} |-> IF x = a THEN b ELSE ram[x]]

EmptyRam == [x \in {} |-> 0]

-----------------------------------------------------------------------------
(* SAM (sam.rs)                                                            *)

\* Sam::write: bit index/2 of config is cleared by an even index, set by an
\* odd one.
\* Sam::write that sets the bit on every index
SamWrite_set(config, index) ==
    LET val == 2 ^ (index \div 2)
    IN  BitOr(config, val)

SamWrite(config, index) ==
    LET val == 2 ^ (index \div 2)
    IN  IF index % 2 = 0
        THEN config - BitAnd(config, val)
        ELSE BitOr(config, val)

-----------------------------------------------------------------------------
(* One side of a PIA (pia.rs, PiaSide)                                     *)

PiaSideDefault == [cr |-> 0, ir |-> 0, or |-> 0, ddr |-> 0, c1 |-> FALSE, c2 |-> FALSE]

manual_c2_trigger(s) == BitAnd(s.cr, 48) = 48

\* set_c1 that raises the flag on the level of C1, not on its rise
set_c1_level(s, c1) ==
    [s EXCEPT !.cr = IF c1 THEN BitOr(s.cr, 128) ELSE s.cr,
              !.c1 = c1]

set_c1(s, c1) ==
    [s EXCEPT !.cr = IF c1 /\ ~s.c1 THEN BitOr(s.cr, 128) ELSE s.cr,
              !.c1 = c1]

set_c2(s, c2) ==
    [s EXCEPT !.cr = IF c2 /\ ~s.c2 /\ ~manual_c2_trigger(s)
                     THEN BitOr(s.cr, 64) ELSE s.cr,
              !.c2 = c2]

\* write_control that stores the whole byte
write_control_raw(s, b) ==
    LET s1 == [s EXCEPT !.cr = b]
    IN  IF manual_c2_trigger(s1) THEN set_c2(s1, BitAnd(s1.cr, 8) = 8) ELSE s1

write_control(s, b) ==
    LET s1 == [s EXCEPT !.cr = BitOr(BitAnd(b, 63), BitAnd(s.cr, 192))]
    IN  IF manual_c2_trigger(s1) THEN set_c2(s1, BitAnd(s1.cr, 8) = 8) ELSE s1

\* read_control returns the stored CR and clears the two flag bits
read_control(s) == [side |-> [s EXCEPT !.cr = BitAnd(s.cr, 63)], val |-> s.cr]

pr_selected(s) == BitAnd(s.cr, 4) = 4

\* write_data that stores the byte in OR without the DDR mask
write_data_unmasked(s, b) ==
    IF pr_selected(s)
    THEN [s EXCEPT !.or = b]
    ELSE [s EXCEPT !.ddr = b]

write_data(s, b) ==
    IF pr_selected(s)
    THEN [s EXCEPT !.or = BitAnd(b, s.ddr)]
    ELSE [s EXCEPT !.ddr = b]

read_data(s) ==
    IF pr_selected(s)
    THEN BitOr(BitAnd(s.or, s.ddr), BitAnd(s.ir, Not8(s.ddr)))
    ELSE s.ddr

read_output(s) == BitOr(BitAnd(s.or, s.ddr), Not8(s.ddr))

PiaSideWrite(s, index, b) ==
    IF index % 2 = 1 THEN write_control(s, b) ELSE write_data(s, b)

PiaSideRead(s, index) ==
    IF index % 2 = 1 THEN read_control(s) ELSE [side |-> s, val |-> read_data(s)]

\* consume_interrupt that also requires CR bit 4 clear for C2
consume_interrupt_b345(s) ==
    LET by1 == s.c1 /\ BitAnd(s.cr, 1) = 1
        by2 == s.c2 /\ BitAnd(s.cr, 56) = 8
    IN  [side |-> [s EXCEPT !.c1 = IF by1 THEN FALSE ELSE s.c1,
                            !.c2 = IF by2 THEN FALSE ELSE s.c2],
         val  |-> by1 \/ by2]

consume_interrupt(s) ==
    LET by1 == s.c1 /\ BitAnd(s.cr, 1) = 1
        by2 == s.c2 /\ BitAnd(s.cr, 40) = 8
    IN  [side |-> [s EXCEPT !.c1 = IF by1 THEN FALSE ELSE s.c1,
                            !.c2 = IF by2 THEN FALSE ELSE s.c2],
         val  |-> by1 \/ by2]

-----------------------------------------------------------------------------
(* PIA1 (pia.rs, Pia1).  An AudioSample's data d is kept as the integer    *)
(* 32 * d: a DAC write sends (v >> 2) - 31, single-bit sound sends +-16.    *)

Pia1New ==
    [ab |-> <<PiaSideDefault, PiaSideDefault>>, sound_enabled |-> FALSE,
     dac_sel_a |-> FALSE, dac_sel_b |-> FALSE, last_bit_sound |-> FALSE]

\* the side a register index selects: ab[(reg_num >> 1) & 1]
SideOf(reg_num) == ((reg_num \div 2) % 2) + 1

Pia1Read(p1, reg_num) ==
    LET r == PiaSideRead(p1.ab[SideOf(reg_num)], reg_num)
    IN  [pia1 |-> [p1 EXCEPT !.ab[SideOf(reg_num)] = r.side], val |-> r.val]

\* the DAC sample taken from OR without the DDR mask of read_output
DacSample_or(p) == (p.ab[1].or \div 4) - 31

DacSample(p) == (read_output(p.ab[1]) \div 4) - 31

Pia1Write(p1, ch, reg_num, data) ==
    LET i == reg_num % 4
        p == [p1 EXCEPT !.ab[SideOf(i)] = PiaSideWrite(p1.ab[SideOf(i)], reg_num, data)]
        bit == BitAnd(read_output(p.ab[2]), 2) = 2
    IN  CASE i = 0 /\ p.sound_enabled /\ ~p.dac_sel_a /\ ~p.dac_sel_b ->
                [pia1 |-> p, chan |-> Append(ch, DacSample(p))]
          [] i = 2 ->
                [pia1 |-> [p EXCEPT !.last_bit_sound = bit],
                 chan |-> IF bit # p.last_bit_sound
                          THEN Append(ch, IF bit THEN 16 ELSE -16)
                          ELSE ch]
          [] i = 3 ->
                [pia1 |-> [p EXCEPT !.sound_enabled = BitAnd(data, 8) = 8], chan |-> ch]
          [] OTHER -> [pia1 |-> p, chan |-> ch]

cart_firq(p1) ==
    LET r == consume_interrupt(set_c1(p1.ab[2], TRUE))
    IN  [pia1 |-> [p1 EXCEPT !.ab[2] = r.side], val |-> r.val]

set_dac_mux(p1, a, b) == [p1 EXCEPT !.dac_sel_a = a, !.dac_sel_b = b]

-----------------------------------------------------------------------------
(* PIA0 (pia.rs, Pia0)                                                     *)

Pia0New ==
    [ab |-> <<PiaSideDefault, PiaSideDefault>>,
     col |-> [i \in 1..8 |-> 255],
     joy_x |-> 31, joy_y |-> 31, joy_sw_1 |-> FALSE, joy_sw_2 |-> FALSE]

\* the OR of the column bytes of the columns whose bit is set in cols
RECURSIVE StrobeCols(_, _, _)
StrobeCols(col, cols, i) ==
    IF i > 8 THEN 0
    ELSE BitOr(IF cols % 2 = 1 THEN col[i] ELSE 0,
               StrobeCols(col, cols \div 2, i + 1))

\* strobe_keyboard that takes the columns from OR, whatever the DDR says
strobe_keyboard_or(p0) ==
    LET cols0 == Not8(p0.ab[2].or)
        com0  == IF cols0 # 0 THEN StrobeCols(p0.col, cols0, 1) ELSE 0
        cols  == IF cols0 # 0 THEN cols0 \div 256 ELSE cols0
        com1  == IF p0.joy_sw_1 THEN BitOr(com0, BitAnd(3, Not8(cols))) ELSE com0
        com2  == IF p0.joy_sw_2 THEN BitOr(com1, BitAnd(12, Not8(cols))) ELSE com1
    IN  [p0 EXCEPT !.ab[1].ir = Not8(com2)]

\* strobe_keyboard: cols has been shifted out (it is 0) when the joystick
\* switches are looked at
strobe_keyboard(p0) ==
    LET cols0 == Not8(read_output(p0.ab[2]))
        com0  == IF cols0 # 0 THEN StrobeCols(p0.col, cols0, 1) ELSE 0
        cols  == IF cols0 # 0 THEN cols0 \div 256 ELSE cols0
        com1  == IF p0.joy_sw_1 THEN BitOr(com0, BitAnd(3, Not8(cols))) ELSE com0
        com2  == IF p0.joy_sw_2 THEN BitOr(com1, BitAnd(12, Not8(cols))) ELSE com1
    IN  [p0 EXCEPT !.ab[1].ir = Not8(com2)]

\* Pia0::read locks PIA1 for the joystick comparator when register 0 is read
Pia0Read(p0, p1, reg_num) ==
    LET i == reg_num % 4
        joy_val == IF p0.ab[1].c2 THEN p0.joy_y ELSE p0.joy_x
        r1  == Pia1Read(p1, 0)
        dac == r1.val \div 4
        pa  == IF i # 0 THEN p0
               ELSE IF dac > joy_val
                    THEN [p0 EXCEPT !.ab[1].ir = BitAnd(p0.ab[1].ir, 127)]
                    ELSE [p0 EXCEPT !.ab[1].ir = BitOr(p0.ab[1].ir, 128)]
        r   == PiaSideRead(pa.ab[SideOf(i)], reg_num)
    IN  [pia0 |-> [pa EXCEPT !.ab[SideOf(i)] = r.side],
         pia1 |-> IF i = 0 THEN r1.pia1 ELSE p1,
         val  |-> r.val]

Pia0Write(p0, p1, reg_num, data) ==
    LET i == reg_num % 4
        p == [p0 EXCEPT !.ab[SideOf(i)] = PiaSideWrite(p0.ab[SideOf(i)], i, data)]
    IN  CASE i \in {1, 3} ->
                [pia0 |-> p, pia1 |-> set_dac_mux(p1, p.ab[1].c2, p.ab[2].c2)]
          [] i = 2 -> [pia0 |-> strobe_keyboard(p), pia1 |-> p1]
          [] OTHER -> [pia0 |-> p, pia1 |-> p1]

hsync_irq(p0) ==
    LET r == consume_interrupt(set_c1(p0.ab[1], TRUE))
    IN  [pia0 |-> [p0 EXCEPT !.ab[1] = r.side], val |-> r.val]

vsync_irq(p0) ==
    LET r == consume_interrupt(set_c1(p0.ab[2], TRUE))
    IN  [pia0 |-> [p0 EXCEPT !.ab[2] = r.side], val |-> r.val]

-----------------------------------------------------------------------------
(* The ACIA.  An ACIA configured at base owns base and base + 1; a read    *)
(* returns what the device holds, a write goes to the device and not to    *)
(* memory.                                                                 *)

NoAcia == [on |-> FALSE, base |-> 0, rx |-> 0]

owns_address(a, addr) == a.on /\ addr \in {a.base, a.base + 1}

AciaRead(a, addr) == a.rx

-----------------------------------------------------------------------------
(* The memory bus (memory.rs).  A machine m is the record of the core's    *)
(* fields; an operation takes a machine and returns the machine after it.  *)

Machine ==
    [raw_ram |-> raw_ram, ram_top |-> ram_top, acia |-> acia, pia0 |-> pia0,
     pia1 |-> pia1, sam |-> sam, chan |-> chan, reg |-> reg,
     in_cwai |-> in_cwai, in_sync |-> in_sync, cart_pending |-> cart_pending,
     err |-> err, program_start |-> program_start, faulted |-> faulted,
     reset_vector |-> reset_vector, log |-> <<>>]

\* Core::_read_u8: the machine after the read (a PIA read changes the PIA)
\* and the byte read
read_u8(m0, at, addr) ==
    With(m0, LAMBDA m :
    IF owns_address(m.acia, addr)
    THEN [m |-> m, val |-> AciaRead(m.acia, addr)]
    ELSE CASE addr <= 65279 ->
                [m |-> m, val |-> RamGet(m.raw_ram, addr)]
           [] addr \in 65280..65311 ->
                With(Pia0Read(m.pia0, m.pia1, addr - 65280), LAMBDA r :
                    [m |-> [m EXCEPT !.pia0 = r.pia0, !.pia1 = r.pia1], val |-> r.val])
           [] addr \in 65312..65343 ->
                With(Pia1Read(m.pia1, addr - 65312), LAMBDA r :
                    [m |-> [m EXCEPT !.pia1 = r.pia1], val |-> r.val])
           [] addr \in 65472..65503 ->
                [m |-> m, val |-> 0]
           [] addr \in 65504..65535 ->
                [m |-> m, val |-> RamGet(m.raw_ram, addr - 16384)]
           [] OTHER ->
                [m |-> m, val |-> 0])

\* Core::_read_u16: two byte reads, high byte first
read_u16(m, at, addr) ==
    With(read_u8(m, at, addr), LAMBDA h :
    With(read_u8(h.m, at, addr + 1), LAMBDA l :
        [m |-> l.m, val |-> Word(h.val, l.val)]))

Logged(m0, at, addr, data) ==
    With(m0, LAMBDA m : [m EXCEPT !.log = Append(m.log, <<"w", at, addr, data>>)])

\* _write_u8 without the check that keeps regular code out of the ROM
write_u8_unguarded(m0, at, addr, data) ==
    With(Logged(m0, at, addr, data), LAMBDA m :
        IF owns_address(m.acia, addr)
        THEN m
        ELSE CASE addr <= 65279 ->
                    [m EXCEPT !.raw_ram = RamSet(m.raw_ram, addr, data)]
               [] addr \in 65280..65311 ->
                    With(Pia0Write(m.pia0, m.pia1, addr - 65280, data), LAMBDA r :
                        [m EXCEPT !.pia0 = r.pia0, !.pia1 = r.pia1])
               [] addr \in 65312..65343 ->
                    With(Pia1Write(m.pia1, m.chan, addr - 65312, data), LAMBDA r :
                        [m EXCEPT !.pia1 = r.pia1, !.chan = r.chan])
               [] addr \in 65472..65503 ->
                    [m EXCEPT !.sam = SamWrite(m.sam, addr - 65472)]
               [] addr \in 65504..65535 ->
                    [m EXCEPT !.raw_ram = RamSet(m.raw_ram, addr - 16384, data)]
               [] OTHER -> m)

\* _write_u8 writing the vector window where it is addressed, not remapped
write_u8_unmapped(m0, at, addr, data) ==
    With(Logged(m0, at, addr, data), LAMBDA m :
        IF owns_address(m.acia, addr)
        THEN m
        ELSE CASE addr <= 65279 \/ addr >= 65504 ->
                    IF addr > m.ram_top /\ at # "System"
                    THEN m
                    ELSE [m EXCEPT !.raw_ram = RamSet(m.raw_ram, addr, data)]
               [] addr \in 65280..65311 ->
                    With(Pia0Write(m.pia0, m.pia1, addr - 65280, data), LAMBDA r :
                        [m EXCEPT !.pia0 = r.pia0, !.pia1 = r.pia1])
               [] addr \in 65312..65343 ->
                    With(Pia1Write(m.pia1, m.chan, addr - 65312, data), LAMBDA r :
                        [m EXCEPT !.pia1 = r.pia1, !.chan = r.chan])
               [] addr \in 65472..65503 ->
                    [m EXCEPT !.sam = SamWrite(m.sam, addr - 65472)]
               [] OTHER -> m)

\* _write_u8 that takes ram_top itself for ROM
write_u8_below_top(m0, at, addr, data) ==
    With(Logged(m0, at, addr, data), LAMBDA m :
        IF owns_address(m.acia, addr)
        THEN m
        ELSE CASE addr <= 65279 ->
                    IF addr >= m.ram_top /\ at # "System"
                    THEN m
                    ELSE [m EXCEPT !.raw_ram = RamSet(m.raw_ram, addr, data)]
               [] addr \in 65280..65311 ->
                    With(Pia0Write(m.pia0, m.pia1, addr - 65280, data), LAMBDA r :
                        [m EXCEPT !.pia0 = r.pia0, !.pia1 = r.pia1])
               [] addr \in 65312..65343 ->
                    With(Pia1Write(m.pia1, m.chan, addr - 65312, data), LAMBDA r :
                        [m EXCEPT !.pia1 = r.pia1, !.chan = r.chan])
               [] addr \in 65472..65503 ->
                    [m EXCEPT !.sam = SamWrite(m.sam, addr - 65472)]
               [] addr \in 65504..65535 ->
                    IF addr > m.ram_top /\ at # "System"
                    THEN m
                    ELSE [m EXCEPT !.raw_ram = RamSet(m.raw_ram, addr - 16384, data)]
               [] OTHER -> m)

\* Core::_write_u8
write_u8(m0, at, addr, data) ==
    With(Logged(m0, at, addr, data), LAMBDA m :
        IF owns_address(m.acia, addr)
        THEN m
        ELSE CASE addr <= 65279 ->
                    IF addr > m.ram_top /\ at # "System"
                    THEN m
                    ELSE [m EXCEPT !.raw_ram = RamSet(m.raw_ram, addr, data)]
               [] addr \in 65280..65311 ->
                    With(Pia0Write(m.pia0, m.pia1, addr - 65280, data), LAMBDA r :
                        [m EXCEPT !.pia0 = r.pia0, !.pia1 = r.pia1])
               [] addr \in 65312..65343 ->
                    With(Pia1Write(m.pia1, m.chan, addr - 65312, data), LAMBDA r :
                        [m EXCEPT !.pia1 = r.pia1, !.chan = r.chan])
               [] addr \in 65472..65503 ->
                    [m EXCEPT !.sam = SamWrite(m.sam, addr - 65472)]
               [] addr \in 65504..65535 ->
                    IF addr > m.ram_top /\ at # "System"
                    THEN m
                    ELSE [m EXCEPT !.raw_ram = RamSet(m.raw_ram, addr - 16384, data)]
               [] OTHER -> m)

\* Core::_write_u8u16 of a 16-bit value: the high byte, then the low byte
write_u16(m, at, addr, w) ==
    With(w, LAMBDA v : write_u8(write_u8(m, at, addr, Hi(v)), at, addr + 1, Lo(v)))

-----------------------------------------------------------------------------
(* Registers.  The register set is the record reg; CC is the byte          *)
(* E F H I N Z V C, bit 7 down to bit 0.                                    *)

RegNames == {"a", "b", "dp", "cc", "x", "y", "u", "s", "pc"}

reg_size(r) == IF r \in {"a", "b", "dp", "cc"} THEN 1 ELSE 2

CCBitE == 128
CCBitF == 64
CCBitI == 16

cc_is_set(r, bit) == BitAnd(r.cc, bit) = bit
cc_set(r, bit, on) ==
    With(r, LAMBDA v : [v EXCEPT !.cc = IF on THEN BitOr(v.cc, bit)
                                           ELSE v.cc - BitAnd(v.cc, bit)])
cc_or_with_byte(r, byte) == With(r, LAMBDA v : [v EXCEPT !.cc = BitOr(v.cc, byte)])

InterruptTypes == {"Reset", "Nmi", "Firq", "Irq", "Swi", "Swi2", "Swi3"}

\* InterruptType::vector
vector(it) ==
    CASE it = "Reset" -> 65534
      [] it = "Nmi"   -> 65532
      [] it = "Swi"   -> 65530
      [] it = "Irq"   -> 65528
      [] it = "Firq"  -> 65526
      [] it = "Swi2"  -> 65524
      [] it = "Swi3"  -> 65522

-----------------------------------------------------------------------------
(* Interrupt entry (runtime.rs).  An operation that has failed leaves      *)
(* m.err other than "ok", and what follows it in the code is not done (the *)
(* ? operator); a panic ends the thread with m.err = "panic".              *)

Event(m0, e) == With(m0, LAMBDA m : [m EXCEPT !.log = Append(m.log, e)])

\* Core::system_psh: the register is written below S, then S is moved
system_psh(m0, r) ==
    With(m0, LAMBDA m :
    IF m.err # "ok" THEN m
    ELSE IF m.reg.s < reg_size(r)
    THEN [m EXCEPT !.err = "runtime"]
    ELSE With(IF reg_size(r) = 2
              THEN write_u16(m, "System", m.reg.s - reg_size(r), m.reg[r])
              ELSE write_u8(m, "System", m.reg.s - reg_size(r), m.reg[r]),
              LAMBDA w : [w EXCEPT !.reg.s = m.reg.s - reg_size(r)]))

\* stack_for_interrupt that marks E only after CC has been pushed
stack_for_interrupt_late_e(m, entire) ==
    With(IF entire
         THEN system_psh(system_psh(system_psh(system_psh(system_psh(system_psh(
                  system_psh(m, "pc"), "u"), "y"), "x"), "dp"), "b"), "a")
         ELSE system_psh(m, "pc"),
         LAMBDA m2 :
    With(system_psh(m2, "cc"), LAMBDA m3 :
        IF m3.err # "ok" THEN m3
        ELSE [m3 EXCEPT !.reg = cc_set(m3.reg, CCBitE, entire)]))

\* Core::stack_for_interrupt
stack_for_interrupt(m, entire) ==
    With(IF entire
         THEN system_psh(system_psh(system_psh(system_psh(system_psh(system_psh(
                  system_psh(m, "pc"), "u"), "y"), "x"), "dp"), "b"), "a")
         ELSE system_psh(m, "pc"),
         LAMBDA m2 :
        system_psh(IF m2.err # "ok" THEN m2
                   ELSE [m2 EXCEPT !.reg = cc_set(m2.reg, CCBitE, entire)], "cc"))

\* a mask table that treats SWI2 and SWI3 like SWI
IfMaskFlags_swi(it) ==
    CASE it = "Irq" -> 16
      [] OTHER -> 80

\* the registers start_interrupt saves and the mask it sets, by kind
Entire(it) == it # "Firq"
IfMaskFlags(it) ==
    CASE it \in {"Swi2", "Swi3"} -> 0
      [] it = "Irq" -> 16
      [] OTHER -> 80

\* start_interrupt that stacks the registers whatever in_cwai says
start_interrupt_restack(m0, it) ==
    With(m0, LAMBDA m :
    IF m.err # "ok" THEN m
    ELSE IF m.in_sync THEN [m EXCEPT !.err = "panic"]
    ELSE
    With(stack_for_interrupt(Event(m, <<"int", it>>), Entire(it)), LAMBDA m1 :
    IF m1.err # "ok" THEN m1
    ELSE
    With(read_u16([m1 EXCEPT !.reg = cc_or_with_byte(m1.reg, IfMaskFlags(it))],
                  "System", vector(it)), LAMBDA v :
    With(read_u8(v.m, "System", v.val), LAMBDA b :
        IF b.val = 0
        THEN [b.m EXCEPT !.err = "panic"]
        ELSE [b.m EXCEPT !.reg.pc = v.val, !.in_cwai = FALSE]))))

\* Core::start_interrupt
start_interrupt(m0, it) ==
    With(m0, LAMBDA m :
    IF m.err # "ok" THEN m
    ELSE IF m.in_sync THEN [m EXCEPT !.err = "panic"]
    ELSE
    With(IF ~m.in_cwai
         THEN stack_for_interrupt(Event(m, <<"int", it>>), Entire(it))
         ELSE Event(m, <<"int", it>>), LAMBDA m1 :
    IF m1.err # "ok" THEN m1
    ELSE
    With(read_u16([m1 EXCEPT !.reg = cc_or_with_byte(m1.reg, IfMaskFlags(it))],
                  "System", vector(it)), LAMBDA v :
    With(read_u8(v.m, "System", v.val), LAMBDA b :
        IF b.val = 0
        THEN [b.m EXCEPT !.err = "panic"]
        ELSE [b.m EXCEPT !.reg.pc = v.val, !.in_cwai = FALSE]))))

-----------------------------------------------------------------------------
(* The run loop (runtime.rs).  What decoding and evaluating the            *)
(* instruction at PC produces is the Outcome o: the registers after it     *)
(* (new_ctx), the writes it queued, its meta marker, or bad when decoding  *)
(* fails.  The timing counters of the loop are left out.                   *)

\* Core::_write_u8u16
write_u8u16(m, at, addr, val, size) ==
    IF size = 2 THEN write_u16(m, at, addr, val) ELSE write_u8(m, at, addr, val)

\* the loop over o.writes in exec_next
RECURSIVE FlushWrites(_, _)
FlushWrites(m0, ws) ==
    With(m0, LAMBDA m :
    IF ws = <<>> THEN m
    ELSE FlushWrites(write_u8u16(m, Head(ws).at, Head(ws).addr, Head(ws).val, Head(ws).size),
                     Tail(ws)))

\* Core::exec_next(commit = true), list_mode none
exec_next(m, o) ==
    With(read_u8(Event(m, <<"fetch", m.reg.pc>>), "Program", m.reg.pc), LAMBDA f :
        IF o.bad
        THEN [f.m EXCEPT !.err = "runtime"]
        ELSE FlushWrites(Event([f.m EXCEPT !.reg = o.new_ctx], <<"commit">>), o.writes))

\* the match on the meta marker in exec_one
exec_meta(m0, meta) ==
    With(m0, LAMBDA m :
    IF m.err # "ok" THEN m
    ELSE CASE meta = "EXIT" -> [m EXCEPT !.err = "exit"]
           [] meta = "CWAI" ->
                With(stack_for_interrupt(Event(m, <<"cwai">>), TRUE), LAMBDA k :
                    IF k.err # "ok" THEN k ELSE [k EXCEPT !.in_cwai = TRUE])
           [] meta = "SYNC" -> [m EXCEPT !.in_sync = TRUE]
           [] meta \in {"Swi", "Swi2", "Swi3"} -> start_interrupt(m, meta)
           [] OTHER -> m)

\* the hsync work with in_sync cleared only for an interrupt that is taken
hsync_tick_mask_first(m0, vs) ==
    With(m0, LAMBDA m :
    IF m.err # "ok" THEN m
    ELSE
    With(IF m.cart_pending THEN cart_firq(m.pia1) ELSE [pia1 |-> m.pia1, val |-> FALSE],
         LAMBDA c :
    With(hsync_irq(m.pia0), LAMBDA h :
    With(IF vs /\ ~h.val THEN vsync_irq(h.pia0) ELSE [pia0 |-> h.pia0, val |-> FALSE],
         LAMBDA v :
    With(Event([m EXCEPT !.pia1 = c.pia1, !.pia0 = v.pia0], <<"tick", h.val \/ v.val, c.val>>),
         LAMBDA m1 :
    With(IF (h.val \/ v.val) /\ ~cc_is_set(m1.reg, CCBitI)
         THEN start_interrupt([m1 EXCEPT !.in_sync = FALSE], "Irq")
         ELSE m1,
         LAMBDA m2 :
        IF c.val /\ m2.err = "ok" /\ ~cc_is_set(m2.reg, CCBitF)
        THEN With(start_interrupt([m2 EXCEPT !.in_sync = FALSE], "Firq"), LAMBDA k :
                 IF k.err # "ok" THEN k ELSE [k EXCEPT !.cart_pending = FALSE])
        ELSE m2))))))

\* the hsync work of exec_one; vs: the vsync period has elapsed as well
hsync_tick(m0, vs) ==
    With(m0, LAMBDA m :
    IF m.err # "ok" THEN m
    ELSE
    With(IF m.cart_pending THEN cart_firq(m.pia1) ELSE [pia1 |-> m.pia1, val |-> FALSE],
         LAMBDA c :
    With(hsync_irq(m.pia0), LAMBDA h :
    With(IF vs /\ ~h.val THEN vsync_irq(h.pia0) ELSE [pia0 |-> h.pia0, val |-> FALSE],
         LAMBDA v :
    With(Event([m EXCEPT !.pia1 = c.pia1, !.pia0 = v.pia0], <<"tick", h.val \/ v.val, c.val>>),
         LAMBDA m1 :
    With(IF h.val \/ v.val
         THEN IF ~cc_is_set(m1.reg, CCBitI)
              THEN start_interrupt([m1 EXCEPT !.in_sync = FALSE], "Irq")
              ELSE [m1 EXCEPT !.in_sync = FALSE]
         ELSE m1,
         LAMBDA m2 :
        IF c.val /\ m2.err = "ok"
        THEN IF ~cc_is_set(m2.reg, CCBitF)
             THEN With(start_interrupt([m2 EXCEPT !.in_sync = FALSE], "Firq"), LAMBDA k :
                      IF k.err # "ok" THEN k ELSE [k EXCEPT !.cart_pending = FALSE])
             ELSE [m2 EXCEPT !.in_sync = FALSE]
        ELSE m2))))))

\* exec_one with the instruction and the tick the wrong way round
exec_one_tick_first(m, o, hs, vs) ==
    With(IF hs THEN hsync_tick(m, vs) ELSE m, LAMBDA m1 :
        IF m1.err = "ok" /\ ~m.in_cwai /\ ~m.in_sync
        THEN exec_meta(exec_next(m1, o), o.meta)
        ELSE m1)

\* Core::exec_one; hs: the hsync period has elapsed
exec_one(m, o, hs, vs) ==
    With(IF ~m.in_cwai /\ ~m.in_sync
         THEN exec_meta(exec_next(m, o), o.meta)
         ELSE m,
         LAMBDA m1 : IF hs THEN hsync_tick(m1, vs) ELSE m1)

-----------------------------------------------------------------------------
(* The device mutexes.  The emulation thread locks them in bus accesses    *)
(* and in the hsync work of exec_one, the display thread in                *)
(* DeviceManager::update.  What a thread does to the mutexes in one such   *)
(* operation is a sequence of <<"lock", mutex>> and <<"unlock", mutex>>; a *)
(* guard is unlocked where its scope ends.                                 *)

Threads == {"emu", "display"}
Mutexes == {"pia0", "pia1", "sam", "vdg"}

Scoped(mutex) == << <<"lock", mutex>>, <<"unlock", mutex>> >>

\* _read_u8 and _write_u8 on a device window; Pia0::read of register 0 and
\* Pia0::write of a control register lock PIA1 inside the PIA0 lock
BusLocks(k) ==
    CASE k \in {"pia0_read_0", "pia0_write_ctrl"} ->
            << <<"lock", "pia0">>, <<"lock", "pia1">>, <<"unlock", "pia1">>,
               <<"unlock", "pia0">> >>
      [] k \in {"pia0_read", "pia0_write"} -> Scoped("pia0")
      [] k = "pia1_access" -> Scoped("pia1")
      [] k = "sam_write" -> Scoped("sam")

\* the hsync work of exec_one; vs: the vsync period has elapsed as well
TickLocks(vs) ==
    Scoped("pia1") \o Scoped("pia0") \o (IF vs THEN Scoped("pia0") ELSE <<>>)

\* DeviceManager::update that takes PIA1 first and PIA0 inside it
UpdateLocks_pia1_first(render) ==
    << <<"lock", "pia1">>, <<"lock", "pia0">>, <<"unlock", "pia0">>,
       <<"lock", "sam">>, <<"unlock", "sam">>, <<"unlock", "pia1">> >>
    \o (IF render THEN Scoped("vdg") ELSE <<>>)

\* DeviceManager::update; render: the VDG mode is valid
UpdateLocks(render) ==
    Scoped("pia0")
    \o << <<"lock", "sam">>, <<"lock", "pia1">>, <<"unlock", "pia1">>, <<"unlock", "sam">> >>
    \o (IF render THEN Scoped("vdg") ELSE <<>>)

BusKinds == {"pia0_read_0", "pia0_read", "pia0_write_ctrl", "pia0_write", "pia1_access",
             "sam_write"}

\* the operations of each thread
Programs(t) ==
    IF t = "emu"
    THEN {BusLocks(k) : k \in BusKinds} \cup {TickLocks(vs) : vs \in BOOLEAN}
    ELSE {UpdateLocks(render) : render \in BOOLEAN}

NoLocks ==
    [held |-> [t \in Threads |-> <<>>], todo |-> [t \in Threads |-> <<>>]]

Holder(l, mutex) == {t \in Threads : \E i \in 1..Len(l.held[t]) : l.held[t][i] = mutex}

\* Mutex::lock returns once no thread holds the mutex
MutexLock(l, t) ==
    [l EXCEPT !.held[t] = Append(@, Head(l.todo[t])[2]), !.todo[t] = Tail(@)]

\* the guard is dropped
MutexUnlock(l, t) ==
    [l EXCEPT !.held[t] = SelectSeq(@, LAMBDA x : x # Head(l.todo[t])[2]),
              !.todo[t] = Tail(@)]

-----------------------------------------------------------------------------
(* Sound (sound.rs).  A sample's data is kept as 0 for 0.0 and 1 for any   *)
(* other value, which is all the pipeline tests; the samples sent are not  *)
(* negative, so that two non-zero values never add up to 0.0.  Times count *)
(* in half sample periods, and a sample carries no time of its own: the    *)
(* pipeline keeps gap, the time of the sample in hand minus the time of    *)
(* the sample last written.                                                *)

BufferFrames == 2
SampleDuration == 2
BufferDuration == BufferFrames * SampleDuration

NoBuf == [id |-> 0, q |-> <<>>, head |-> 0]

\* SampleQue: q holds the samples written (tail = Len(q)), head counts the reads
capacity_remaining(b) == BufferFrames - Len(b.q)
write_next_sample(b, d) == [b EXCEPT !.q = Append(@, d)]
clear(b) == [b EXCEPT !.q = <<>>, !.head = 0]

\* SourceBufferPool
PoolNew == [empty |-> [i \in 1..4 |-> [NoBuf EXCEPT !.id = i]], full |-> <<>>]
full_buffer_count(pl) == Len(pl.full)
\* get_full_buffer that pops the buffer queued last
get_full_buffer_back(pl) ==
    IF pl.full = <<>> THEN [pool |-> pl, buf |-> NoBuf]
    ELSE [pool |-> [pl EXCEPT !.full = SubSeq(@, 1, Len(@) - 1)], buf |-> pl.full[Len(pl.full)]]

\* get_full_buffer that leaves the buffer it returns in the queue
get_full_buffer_peek(pl) ==
    IF pl.full = <<>> THEN [pool |-> pl, buf |-> NoBuf]
    ELSE [pool |-> pl, buf |-> Head(pl.full)]

get_full_buffer(pl) ==
    IF pl.full = <<>> THEN [pool |-> pl, buf |-> NoBuf]
    ELSE [pool |-> [pl EXCEPT !.full = Tail(@)], buf |-> Head(pl.full)]
put_full_buffer(pl, b) == [pl EXCEPT !.full = Append(@, b)]
get_empty_buffer(pl) ==
    IF pl.empty = <<>> THEN [pool |-> pl, buf |-> NoBuf]
    ELSE [pool |-> [pl EXCEPT !.empty = SubSeq(@, 1, Len(@) - 1)],
          buf  |-> pl.empty[Len(pl.empty)]]
put_empty_buffer(pl, b) == [pl EXCEPT !.empty = Append(@, clear(b))]

\* OutputSampleBuffer on the output slice o of Len(o) \div channels frames
samples_remaining(o, sample_num, channels) ==
    IF Len(o) \div channels < sample_num THEN 0 ELSE (Len(o) \div channels) - sample_num

output_write_sample(o, sample_num, channels, d) ==
    [i \in 1..Len(o) |->
        IF i - 1 \in (sample_num * channels)..((sample_num + 1) * channels - 1)
        THEN d ELSE o[i]]

\* for i in start_sample_num..samples_remaining(start_sample_num, channels)
fill_with_sample(o, start_sample_num, channels, d) ==
    [i \in 1..Len(o) |->
        IF \E f \in start_sample_num..(samples_remaining(o, start_sample_num, channels) - 1) :
               i - 1 \in (f * channels)..((f + 1) * channels - 1)
        THEN d ELSE o[i]]

\* the callback's inner loop: copy from buf until the slice is full or buf
\* is drained
RECURSIVE Drain(_, _)
Drain(c0, o0) ==
    With(c0, LAMBDA c : With(o0, LAMBDA o :
    IF samples_remaining(o, c.sample_num, c.channels) = 0
    THEN [cb |-> [c EXCEPT !.buf_opt = c.buf, !.buf = NoBuf, !.pc = "idle"], out |-> o]
    ELSE IF c.buf.head = Len(c.buf.q)
    THEN [cb |-> [c EXCEPT !.pc = "drained"], out |-> o]
    ELSE Drain([c EXCEPT !.buf.head = @ + 1, !.sample_num = @ + 1],
               output_write_sample(o, c.sample_num, c.channels, c.buf.q[c.buf.head + 1]))))

\* the callback that starts to stream on a single full buffer
callback_top_eager(c0, pl0, o) ==
    With(IF c0.buf_opt = NoBuf /\ (c0.streaming \/ full_buffer_count(pl0) > 0)
         THEN get_full_buffer(pl0)
         ELSE [pool |-> pl0, buf |-> c0.buf_opt],
         LAMBDA g :
        IF g.buf = NoBuf
        THEN [cb   |-> [c0 EXCEPT !.streaming = FALSE, !.pc = "idle", !.starved = TRUE],
              pool |-> g.pool,
              out  |-> fill_with_sample(o, c0.sample_num, c0.channels, 0)]
        ELSE With(Drain([c0 EXCEPT !.buf_opt = NoBuf, !.buf = g.buf, !.streaming = TRUE], o),
                  LAMBDA d : [cb |-> d.cb, pool |-> g.pool, out |-> d.out]))

\* the callback that waits for more than two full buffers before it starts
callback_top_preroll3(c0, pl0, o) ==
    With(IF c0.buf_opt = NoBuf /\ (c0.streaming \/ full_buffer_count(pl0) > 2)
         THEN get_full_buffer(pl0)
         ELSE [pool |-> pl0, buf |-> c0.buf_opt],
         LAMBDA g :
        IF g.buf = NoBuf
        THEN [cb   |-> [c0 EXCEPT !.streaming = FALSE, !.pc = "idle", !.starved = TRUE],
              pool |-> g.pool,
              out  |-> fill_with_sample(o, c0.sample_num, c0.channels, 0)]
        ELSE With(Drain([c0 EXCEPT !.buf_opt = NoBuf, !.buf = g.buf, !.streaming = TRUE], o),
                  LAMBDA d : [cb |-> d.cb, pool |-> g.pool, out |-> d.out]))

\* the callback from the top of its outer loop to its return or to the
\* point where it takes the pool's lock to hand back a drained buffer
callback_top(c0, pl0, o) ==
    With(IF c0.buf_opt = NoBuf /\ (c0.streaming \/ full_buffer_count(pl0) > 1)
         THEN get_full_buffer(pl0)
         ELSE [pool |-> pl0, buf |-> c0.buf_opt],
         LAMBDA g :
        IF g.buf = NoBuf
        THEN [cb   |-> [c0 EXCEPT !.streaming = FALSE, !.pc = "idle", !.starved = TRUE],
              pool |-> g.pool,
              out  |-> fill_with_sample(o, c0.sample_num, c0.channels, 0)]
        ELSE With(Drain([c0 EXCEPT !.buf_opt = NoBuf, !.buf = g.buf, !.streaming = TRUE], o),
                  LAMBDA d : [cb |-> d.cb, pool |-> g.pool, out |-> d.out]))

\* AvgWindow of size 2 over the gained samples: prev is the one pushed last
avg(prev, cur) == IF prev = 0 /\ cur = 0 THEN 0 ELSE 1

\* AudioPipeline::write_sample of data d into the buffer in hand, at time
\* last_written.time + step; wrote is what it returns
write_sample(p0, d, step) ==
    With(p0, LAMBDA p :
    IF p.pc = "panic" THEN [pipe |-> p, wrote |-> 0]
    ELSE IF capacity_remaining(p.buffer) = 0 THEN [pipe |-> p, wrote |-> 0]
    ELSE IF p.buffer_index # Len(p.buffer.q) - p.buffer.head
    THEN [pipe |-> [p EXCEPT !.pc = "panic"], wrote |-> 0]
    ELSE With(avg(p.window, d), LAMBDA a :
            [pipe |-> [p EXCEPT !.buffer = write_next_sample(@, a),
                                !.window = d,
                                !.last_written = a,
                                !.gap = @ - step,
                                !.silent_buffer = IF a # 0 THEN FALSE ELSE @],
             wrote |-> 1]))

\* round(period / sample_duration), at least 1
SampleCount(period) ==
    IF (2 * period + SampleDuration) \div (2 * SampleDuration) < 1 THEN 1
    ELSE (2 * period + SampleDuration) \div (2 * SampleDuration)

\* the data of the k-th of count samples interpolated from start to end
Interpolated(start, end, k, count) ==
    IF k = count THEN end
    ELSE IF start = 0 /\ end = 0 THEN 0
    ELSE 1

\* the while loop of interpolate_fill, sample_count samples still to write
RECURSIVE InterpolateLoop(_, _, _, _, _)
InterpolateLoop(p0, start, end, count, sample_count) ==
    With(p0, LAMBDA p :
    IF sample_count = 0 THEN p
    ELSE With(write_sample(p, Interpolated(start, end, count - sample_count + 1, count),
                           SampleDuration),
              LAMBDA w :
            IF w.wrote = 0 THEN w.pipe
            ELSE InterpolateLoop([w.pipe EXCEPT !.buffer_index = @ + 1], start, end, count,
                                 sample_count - 1)))

\* interpolate_fill whose caller does not take up the index it returns
interpolate_fill_noindex(p) ==
    IF p.gap > SampleDuration
    THEN [InterpolateLoop(p, p.last_written, p.sample, SampleCount(p.gap - SampleDuration),
                          SampleCount(p.gap - SampleDuration))
            EXCEPT !.buffer_index = p.buffer_index]
    ELSE p

\* AudioPipeline::interpolate_fill, period being end.time - start.time less a
\* sample period
interpolate_fill(p) ==
    IF p.gap > SampleDuration
    THEN InterpolateLoop(p, p.last_written, p.sample, SampleCount(p.gap - SampleDuration),
                         SampleCount(p.gap - SampleDuration))
    ELSE p

\* the body of 'get_buffer from the buffer in hand to the write of the
\* sample: to "put" when the buffer has no room, else back to "recv"
WriteIntoBuffer(p0) ==
    With(IF p0.gap > SampleDuration /\ p0.gap < BufferDuration
         THEN interpolate_fill(p0) ELSE p0,
         LAMBDA p1 :
    With(write_sample(p1, p1.sample, p1.gap), LAMBDA w :
        IF w.pipe.pc = "panic" THEN w.pipe
        ELSE IF w.wrote = 0 THEN [w.pipe EXCEPT !.pc = "put"]
        ELSE [w.pipe EXCEPT !.buffer_index = @ + 1, !.buffer_opt = w.pipe.buffer,
                            !.buffer = NoBuf, !.pc = "recv"]))

\* AudioPipeline::new and the locals of AudioPipeline::thread at its start
PipeNew ==
    [pc |-> "recv", buffer_opt |-> NoBuf, buffer |-> NoBuf, buffer_index |-> 0,
     pending |-> <<>>, sample |-> 0, gap |-> 0, last_written |-> 0, window |-> 0,
     silent_buffer |-> TRUE]

\* the captures of the output callback before its first invocation
CbNew ==
    [pc |-> "idle", buf_opt |-> NoBuf, buf |-> NoBuf, streaming |-> FALSE,
     sample_num |-> 0, channels |-> 1, starved |-> FALSE]

\* main has not been entered
ProcessIdle ==
    [main |-> "idle", core |-> "idle", complete |-> FALSE, window |-> TRUE,
     reported |-> FALSE, status |-> -1]

\* no thread is in a device's mutex and the sound threads have not started
Quiescent ==
    /\ process = ProcessIdle
    /\ locks = NoLocks
    /\ pool = PoolNew
    /\ pipe = PipeNew
    /\ cb = CbNew
    /\ out = <<>>
    /\ sndr = TRUE

-----------------------------------------------------------------------------
(* The bus on its own: reads and writes of single bytes, under every       *)
(* configuration of ram_top and of the ACIA.                               *)

\* the addresses written: the last byte of the ROM shadow (0xFEFF), a SAM
\* register (0xFFD1) and the reset vector's high byte (0xFFFE)
BusAddrs == {65279, 65489, 65534}

\* the addresses read: those, and where the vector window is kept (0xBFFE)
ReadAddrs == BusAddrs \cup {49150}

TestBytes == {90, 255}

\* --ram-top: the default 0x7FFF, and 0xFFFF (everything is RAM)
RamTops == {32767, 65535}

\* --acia-enable with --acia-addr: the default 0xFFD0, one in the ROM shadow
\* (0xFEFE) and one in the vector window (0xFFFE)
AciaBases == {65488, 65278, 65534}

RegsDefault ==
    [a |-> 0, b |-> 0, dp |-> 0, cc |-> 0, x |-> 0, y |-> 0, u |-> 0, s |-> 0, pc |-> 0]

NoOp == [kind |-> "none", at |-> "System", addr |-> 0, data |-> 0, val |-> 0]

InitDevices ==
    /\ raw_ram = EmptyRam
    /\ pia0 = Pia0New
    /\ pia1 = Pia1New
    /\ sam = 0
    /\ chan = <<>>

\* Option<u16>: None, and Some(addr)
NoVector == [some |-> FALSE, addr |-> 0]
SomeVector(addr) == [some |-> TRUE, addr |-> addr]

InitCore ==
    /\ reg = RegsDefault
    /\ in_cwai = FALSE
    /\ in_sync = FALSE
    /\ cart_pending = FALSE
    /\ err = "ok"
    /\ program_start = 0
    /\ faulted = FALSE
    /\ reset_vector = NoVector

InitBus ==
    /\ InitDevices
    /\ InitCore
    /\ ram_top \in RamTops
    /\ acia \in {NoAcia} \cup {[on |-> TRUE, base |-> b, rx |-> 0] : b \in AciaBases}
    /\ log = <<>>
    /\ op = NoOp
    /\ Quiescent

\* the machine's bus-visible state becomes that of m
SetBus(m) ==
    /\ raw_ram' = m.raw_ram
    /\ pia0' = m.pia0
    /\ pia1' = m.pia1
    /\ sam' = m.sam
    /\ chan' = m.chan
    /\ log' = m.log
    /\ UNCHANGED <<ram_top, acia, lockvars, process, audiovars>>

BusWrite(at, addr, data) ==
    /\ SetBus(write_u8(Machine, at, addr, data))
    /\ op' = [kind |-> "write", at |-> at, addr |-> addr, data |-> data, val |-> 0]
    /\ UNCHANGED cpuvars

BusRead(at, addr) ==
    LET r == read_u8(Machine, at, addr)
    IN  /\ SetBus(r.m)
        /\ op' = [kind |-> "read", at |-> at, addr |-> addr, data |-> 0, val |-> r.val]
        /\ UNCHANGED cpuvars

\* the ACIA's peer sends a byte: the device now holds it
AciaReceive(b) ==
    /\ acia.on
    /\ acia' = [acia EXCEPT !.rx = b]
    /\ op' = NoOp
    /\ log' = <<>>
    /\ UNCHANGED <<raw_ram, ram_top, pia0, pia1, sam, chan, lockvars, process, audiovars>>
    /\ UNCHANGED cpuvars

NextBus ==
    \/ \E at \in AccessTypes, addr \in BusAddrs, data \in TestBytes : BusWrite(at, addr, data)
    \/ \E at \in AccessTypes, addr \in ReadAddrs : BusRead(at, addr)
    \/ \E b \in TestBytes : AciaReceive(b)

vars == <<raw_ram, ram_top, acia, pia0, pia1, sam, chan, reg, in_cwai, in_sync,
          cart_pending, err, program_start, faulted, reset_vector, log, op, locks,
          pool, pipe, cb, out, sndr, process>>

SpecBus == InitBus /\ [][NextBus]_vars

-----------------------------------------------------------------------------
(* Properties of the bus                                                   *)

InRomShadow(a) == ram_top < a /\ a <= 65279
InVectors(a)   == a \in 65504..65535

\* what a read of addr through the bus returns now, with every access type
ReadsBack(addr, b) == \A at \in AccessTypes : read_u8(Machine, at, addr).val = b

\* the byte just written reads back at the address written
WriteReadsBack == ReadsBack(op.addr, op.data)

\* C1 as stated: for every addr with ram_top < addr <= 0xFEFF and every
\* byte b, a System write8 then a read8 returns b, and a write8 with another
\* access type leaves the memory as it was.
C1_RomShadowAsStated ==
    [][(op'.kind = "write" /\ InRomShadow(op'.addr)) =>
          IF op'.at = "System"
          THEN WriteReadsBack'
          ELSE raw_ram' = raw_ram /\ err' = "ok"]_vars

\* C1, amended: the same for every such addr that no configured ACIA owns
\* (the ACIA is decoded before the memory map).
C1_RomShadow ==
    [][(op'.kind = "write" /\ InRomShadow(op'.addr) /\ ~owns_address(acia, op'.addr)) =>
          IF op'.at = "System"
          THEN WriteReadsBack'
          ELSE raw_ram' = raw_ram /\ err' = "ok"]_vars

\* a Program write into the ROM shadow has just been dropped: the byte a
\* System write had stored there is still there
C1_Witness ==
    /\ op.kind = "write" /\ op.at = "Program"
    /\ InRomShadow(op.addr) /\ ~owns_address(acia, op.addr)
    /\ RamGet(raw_ram, op.addr) \notin {0, op.data}

\* C2 as stated: for every a in [0xFFE0, 0xFFFF], every byte b and every
\* access type, write8(a, b) then read8(a) returns b, and so does
\* read8(a - 0x4000).
C2_VectorWindowAsStated ==
    (op.kind = "write" /\ InVectors(op.addr)) =>
        ReadsBack(op.addr, op.data) /\ ReadsBack(op.addr - 16384, op.data)

\* C2, amended: the same for a write with access type System, or with any
\* access type when a <= ram_top, where no configured ACIA owns a or
\* a - 0x4000; any other write to the window is dropped.
C2_VectorWindow ==
    (/\ op.kind = "write" /\ InVectors(op.addr)
     /\ (op.at = "System" \/ op.addr <= ram_top)
     /\ ~owns_address(acia, op.addr) /\ ~owns_address(acia, op.addr - 16384)) =>
        ReadsBack(op.addr, op.data) /\ ReadsBack(op.addr - 16384, op.data)

\* a System write to 0xFFFE has just stored its byte at 0xBFFE, above ram_top
C2_Witness ==
    /\ op.kind = "write" /\ op.at = "System" /\ op.addr = 65534
    /\ ram_top < op.addr /\ ~acia.on
    /\ RamGet(raw_ram, 49150) = op.data /\ op.data # 0

-----------------------------------------------------------------------------
(* Interrupt entry on its own: start_interrupt applied, for each kind of   *)
(* interrupt, to machines that differ in S, CC, in_cwai and in whether the *)
(* loaded program has set the vectors.                                     *)

RECURSIVE Poke(_, _)
Poke(ram, cells) ==
    IF cells = <<>> THEN ram
    ELSE Poke(RamSet(ram, Head(cells)[1], Head(cells)[2]), Tail(cells))

\* where the loaded program puts the handler of each kind of interrupt
Handler(it) ==
    CASE it = "Reset" -> 256
      [] it = "Swi"   -> 512
      [] it = "Swi2"  -> 768
      [] it = "Swi3"  -> 1024
      [] it = "Irq"   -> 1280
      [] it = "Firq"  -> 1536
      [] it = "Nmi"   -> 1792

\* the memory after loading a program that sets every vector (through the
\* window, so at vector - 0x4000) and whose handlers start with a NOP
LoadedRam ==
    LET Cells(it) == <<<<vector(it) - 16384, Hi(Handler(it))>>,
                       <<vector(it) - 16383, Lo(Handler(it))>>,
                       <<Handler(it), 18>>>>
    IN  Poke(Poke(Poke(Poke(Poke(Poke(Poke(EmptyRam,
            Cells("Reset")), Cells("Swi")), Cells("Swi2")), Cells("Swi3")),
            Cells("Irq")), Cells("Firq")), Cells("Nmi"))

ProgramRegs ==
    [a |-> 161, b |-> 178, dp |-> 211, cc |-> 0, x |-> 22545, y |-> 22818,
     u |-> 23091, s |-> 0, pc |-> 256]

CCValues == {0, 5, 80, 149, 255}
IntStackTops == {0, 2, 11, 12, 40, 32780, 49152}
MaxNest == 2

InitInt ==
    /\ raw_ram \in {LoadedRam, EmptyRam}
    /\ pia0 = Pia0New
    /\ pia1 = Pia1New
    /\ sam = 0
    /\ chan = <<>>
    /\ ram_top = 32767
    /\ acia = NoAcia
    /\ \E c \in CCValues, t \in IntStackTops :
            reg = [ProgramRegs EXCEPT !.cc = c, !.s = t]
    /\ in_cwai \in BOOLEAN
    /\ in_sync = FALSE
    /\ cart_pending = FALSE
    /\ program_start = 256
    /\ faulted = FALSE
    /\ reset_vector = NoVector
    /\ err = "ok"
    /\ log = <<>>
    /\ op = [kind |-> "none", depth |-> 0]
    /\ Quiescent

\* the machine becomes m
SetCore(m) ==
    /\ SetBus(m)
    /\ reg' = m.reg
    /\ in_cwai' = m.in_cwai
    /\ in_sync' = m.in_sync
    /\ cart_pending' = m.cart_pending
    /\ err' = m.err
    /\ program_start' = m.program_start
    /\ faulted' = m.faulted
    /\ reset_vector' = m.reset_vector

StartInterrupt(it) ==
    /\ err = "ok"
    /\ op.depth < MaxNest
    /\ SetCore(start_interrupt(Machine, it))
    /\ op' = [kind |-> "start_interrupt", depth |-> op.depth + 1, it |-> it,
              reg |-> reg, in_cwai |-> in_cwai]

NextInt == \E it \in InterruptTypes : StartInterrupt(it)

SpecInt == InitInt /\ [][NextInt]_vars

\* the writes of log that are bus writes
BusWrites == SelectSeq(log, LAMBDA e : e[1] = "w")

PushedBytes == [i \in 1..Len(BusWrites) |-> <<BusWrites[i][3], BusWrites[i][4]>>]

\* the frame of a machine with registers r: the bytes in the order they are
\* pushed, each 16-bit register with its high byte at the lower address
EntireFrame(r) ==
    << <<r.s - 2, Hi(r.pc)>>, <<r.s - 1, Lo(r.pc)>>,
       <<r.s - 4, Hi(r.u)>>,  <<r.s - 3, Lo(r.u)>>,
       <<r.s - 6, Hi(r.y)>>,  <<r.s - 5, Lo(r.y)>>,
       <<r.s - 8, Hi(r.x)>>,  <<r.s - 7, Lo(r.x)>>,
       <<r.s - 9, r.dp>>, <<r.s - 10, r.b>>, <<r.s - 11, r.a>>,
       <<r.s - 12, BitOr(r.cc, 128)>> >>

FirqFrame(r) ==
    << <<r.s - 2, Hi(r.pc)>>, <<r.s - 1, Lo(r.pc)>>,
       <<r.s - 3, BitAnd(r.cc, 127)>> >>

FramePushed ==
    /\ PushedBytes = IF op.it = "Firq" THEN FirqFrame(op.reg) ELSE EntireFrame(op.reg)
    /\ \A i \in 1..Len(BusWrites) : BusWrites[i][2] = "System"

\* C3 as stated: an interrupt started while in_cwai is false pushes exactly
\* the 12 bytes PC, U, Y, X, DP, B, A, CC (E = 1) for every kind but FIRQ and
\* exactly the 3 bytes PC, CC (E = 0) for FIRQ, high bytes at lower addresses
C3_FrameAsStated ==
    (op.kind = "start_interrupt" /\ ~op.in_cwai) => FramePushed

\* C3: an interrupt started while in_cwai is false, with the frame fitting
\* below S (S >= 12, S >= 3 for FIRQ), pushes exactly the 12 bytes PC, U, Y,
\* X, DP, B, A, CC (E = 1), or the 3 bytes PC, CC (E = 0) for FIRQ, high bytes
\* at lower addresses; with less room the push fails part way
C3_Frame ==
    (/\ op.kind = "start_interrupt"
     /\ ~op.in_cwai
     /\ op.reg.s >= (IF op.it = "Firq" THEN 3 ELSE 12)) => FramePushed

C3_Witness ==
    /\ op.kind = "start_interrupt"
    /\ op.it = "Firq"
    /\ ~op.in_cwai
    /\ op.reg.s = 12
    /\ BitAnd(op.reg.cc, 128) = 128
    /\ Len(BusWrites) = 3
    /\ reg.s = 9
    /\ err = "ok"

\* C4: when start_interrupt(K) returns Ok, PC is the word the bus reads at
\* vec(K), in_cwai is false, CC has gained 0x10 for IRQ and 0x50 for FIRQ,
\* SWI, NMI and Reset, nothing for SWI2 and SWI3, and no CC bit but E (set by
\* the stacking) has changed otherwise
C4_Entry ==
    (op.kind = "start_interrupt" /\ err = "ok") =>
        /\ reg.pc = read_u16(Machine, "System", vector(op.it)).val
        /\ ~in_cwai
        /\ BitAnd(reg.cc, 127) =
               BitOr(BitAnd(op.reg.cc, 127),
                     CASE op.it = "Irq" -> 16
                       [] op.it \in {"Firq", "Swi", "Nmi", "Reset"} -> 80
                       [] op.it \in {"Swi2", "Swi3"} -> 0)
        /\ op.in_cwai => BitAnd(reg.cc, 128) = BitAnd(op.reg.cc, 128)

C4_Witness ==
    /\ op.kind = "start_interrupt"
    /\ op.it = "Swi2"
    /\ err = "ok"
    /\ op.reg.cc = 5
    /\ reg.cc = 133
    /\ reg.pc = 768
    /\ op.reg.pc # 768

-----------------------------------------------------------------------------
(* The run loop: exec_one, over and over, on a loaded program.  Each step  *)
(* draws the outcome of the instruction at PC from a menu and whether the  *)
(* hsync and vsync periods have elapsed.                                   *)

ProgLen == 2

\* the PC after an instruction of a program that loops over ProgLen bytes
NextPc(pc) == (pc - (pc % 256)) + (((pc % 256) + 1) % ProgLen)

Plain(r) ==
    [new_ctx |-> [r EXCEPT !.pc = NextPc(r.pc)], writes |-> <<>>, meta |-> "none",
     bad |-> FALSE]

Store(r, addr, val, size) ==
    [Plain(r) EXCEPT !.writes = <<[at |-> "Generic", addr |-> addr, val |-> val, size |-> size]>>]

\* what the instruction at PC can be: NOP, ANDCC #$AF, ORCC #$50, a store
\* that enables the hsync IRQ or the cartridge FIRQ, a 16-bit store to RAM,
\* SWI2, SYNC, CWAI #$FF, CWAI #$AF, EXIT, or an opcode that does not decode
Outcomes(r) ==
    {Plain(r),
     [Plain(r) EXCEPT !.new_ctx.cc = BitAnd(r.cc, 175)],
     [Plain(r) EXCEPT !.new_ctx.cc = BitOr(r.cc, 80)],
     Store(r, 65281, 1, 1), Store(r, 65315, 1, 1), Store(r, 80, 4660, 2),
     [Plain(r) EXCEPT !.new_ctx.cc = BitAnd(r.cc, 175), !.meta = "CWAI"],
     [Plain(r) EXCEPT !.bad = TRUE]}
    \cup {[Plain(r) EXCEPT !.meta = k] : k \in {"Swi2", "SYNC", "CWAI", "EXIT"}}

CpuStackTops == {2, 16}

InitCpu ==
    /\ raw_ram = LoadedRam
    /\ pia0 = Pia0New
    /\ pia1 = Pia1New
    /\ sam = 0
    /\ chan = <<>>
    /\ ram_top = 32767
    /\ acia = NoAcia
    /\ \E t \in CpuStackTops : reg = [ProgramRegs EXCEPT !.s = t]
    /\ in_cwai = FALSE
    /\ in_sync = FALSE
    /\ cart_pending = TRUE
    /\ program_start = 256
    /\ faulted = FALSE
    /\ reset_vector = NoVector
    /\ err = "ok"
    /\ log = <<>>
    /\ op = [kind |-> "none"]
    /\ Quiescent

ExecOne(o, hs, vs) ==
    /\ err = "ok"
    /\ SetCore(exec_one(Machine, o, hs, vs))
    /\ op' = [kind |-> "exec_one", o |-> o, hs |-> hs, vs |-> vs, reg |-> reg,
              in_cwai |-> in_cwai, in_sync |-> in_sync]

NextCpu ==
    \E o \in IF in_cwai \/ in_sync THEN {Plain(reg)} ELSE Outcomes(reg) :
        \E hs \in BOOLEAN : ExecOne(o, hs, FALSE)

SpecCpu == InitCpu /\ [][NextCpu]_vars

\* what the last step did, read off its log
Executed == op.kind = "exec_one" /\ ~op.in_cwai /\ ~op.in_sync /\ ~op.o.bad
Fetched == \E i \in 1..Len(log) : log[i][1] = "fetch"
IntIdx == {i \in 1..Len(log) : log[i][1] = "int"}
HwIntIdx == {i \in IntIdx : log[i][2] \in {"Irq", "Firq"}}
IrqSignalled == \E i \in 1..Len(log) : log[i][1] = "tick" /\ log[i][2]
FirqSignalled == \E i \in 1..Len(log) : log[i][1] = "tick" /\ log[i][3]
Signalled == IrqSignalled \/ FirqSignalled

\* every interrupt the tick signalled is masked in the CC the step began with
AllMasked ==
    /\ IrqSignalled => BitAnd(op.reg.cc, 16) = 16
    /\ FirqSignalled => BitAnd(op.reg.cc, 64) = 64

\* C5: after SYNC in_sync is set (and PC is at the instruction after SYNC),
\* and while it stays set no instruction is fetched and the registers stay;
\* a tick at which a PIA signals IRQ or FIRQ clears in_sync whatever I and F
\* say; when every signalled interrupt is masked nothing is pushed and the
\* registers, PC and S among them, are unchanged, so that the next fetch is
\* at the instruction after SYNC
C5_Sync ==
    op.kind = "exec_one" =>
        /\ (Executed /\ op.o.meta = "SYNC" /\ ~Signalled) =>
                in_sync /\ reg = op.o.new_ctx /\ err = "ok"
        /\ op.in_sync => ~Fetched
        /\ Fetched => log[1] = <<"fetch", op.reg.pc>>
        /\ (op.in_sync /\ ~Signalled) => in_sync /\ reg = op.reg
        /\ Signalled => ~in_sync
        /\ (op.in_sync /\ Signalled /\ AllMasked) =>
                BusWrites = <<>> /\ reg = op.reg /\ err = "ok"

C5_Witness ==
    /\ op.kind = "exec_one"
    /\ op.in_sync
    /\ IrqSignalled
    /\ BitAnd(op.reg.cc, 16) = 16
    /\ ~in_sync
    /\ reg = op.reg
    /\ BusWrites = <<>>

\* the position in log of the CWAI stacking, 0 when there is none
CwaiIdx == IF \E i \in 1..Len(log) : log[i][1] = "cwai"
           THEN CHOOSE i \in 1..Len(log) : log[i][1] = "cwai"
           ELSE 0

\* the bus writes logged after position i and before the next interrupt entry
WritesAfter(i) ==
    LET stop == IF \E j \in IntIdx : j > i
                THEN CHOOSE j \in IntIdx : j > i /\ \A k \in IntIdx : k > i => j <= k
                ELSE Len(log) + 1
        seg  == SelectSeq(SubSeq(log, i + 1, stop - 1), LAMBDA e : e[1] = "w")
    IN  [n \in 1..Len(seg) |-> <<seg[n][3], seg[n][4]>>]

\* the interrupt entries that found in_cwai set: the first entry of a step
\* that began in CWAI or that has just stacked for CWAI
CwaiEntries ==
    {i \in HwIntIdx : /\ op.in_cwai \/ (CwaiIdx # 0 /\ CwaiIdx < i)
                      /\ \A j \in IntIdx : i <= j}

CwaiWaits ==
    /\ op.in_cwai => ~Fetched
    /\ \A i \in CwaiEntries : WritesAfter(i) = <<>>
    /\ (CwaiEntries # {} /\ Cardinality(IntIdx) = 1 /\ err = "ok") =>
            /\ reg.s = (IF op.in_cwai THEN op.reg.s ELSE op.o.new_ctx.s - 12)
            /\ reg.pc = read_u16(Machine, "System",
                                 vector(log[CHOOSE i \in IntIdx : TRUE][2])).val
            /\ ~in_cwai
    /\ (op.in_cwai /\ ~Signalled) => in_cwai /\ reg = op.reg
    /\ (op.in_cwai /\ Signalled /\ AllMasked) => in_cwai /\ reg = op.reg

CwaiStacks ==
    /\ WritesAfter(CwaiIdx) = EntireFrame(op.o.new_ctx)
    /\ IntIdx = {} => in_cwai /\ reg.s = op.o.new_ctx.s - 12
                      /\ BitAnd(reg.cc, 128) = 128 /\ err = "ok"

\* C6 as stated: CWAI pushes the entire 12-byte frame with E = 1 and sets
\* in_cwai; while in_cwai no instruction is executed; an unmasked IRQ or FIRQ
\* accepted while in_cwai pushes nothing, loads PC from the vector and clears
\* in_cwai; a signalled but masked interrupt leaves in_cwai and the registers
C6_CwaiAsStated ==
    op.kind = "exec_one" =>
        /\ (Executed /\ op.o.meta = "CWAI") => CwaiStacks
        /\ CwaiWaits

\* C6: CWAI with room for the frame (S >= 12) pushes the entire 12-byte frame
\* with E = 1 and sets in_cwai (with less room the step fails and in_cwai
\* stays clear); while in_cwai no instruction is executed; an unmasked IRQ or
\* FIRQ accepted while in_cwai pushes nothing, leaves S, loads PC from the
\* vector and clears in_cwai; a tick whose signalled interrupts are all
\* masked leaves in_cwai set and the registers unchanged
C6_Cwai ==
    op.kind = "exec_one" =>
        /\ (Executed /\ op.o.meta = "CWAI" /\ op.o.new_ctx.s >= 12) => CwaiStacks
        /\ (Executed /\ op.o.meta = "CWAI" /\ op.o.new_ctx.s < 12) =>
                err = "runtime" /\ ~in_cwai
        /\ CwaiWaits

C6_Witness ==
    /\ op.kind = "exec_one"
    /\ op.in_cwai
    /\ FirqSignalled
    /\ ~IrqSignalled
    /\ log[Len(log)] = <<"int", "Firq">>
    /\ reg.s = op.reg.s
    /\ reg.pc = 1536
    /\ ~in_cwai
    /\ err = "ok"

\* the log entries the queued writes ws make when they are flushed
RECURSIVE QueuedBytes(_)
QueuedBytes(ws) ==
    IF ws = <<>> THEN <<>>
    ELSE LET w == Head(ws)
         IN  (IF w.size = 2
              THEN << <<"w", w.at, w.addr, Hi(w.val)>>, <<"w", w.at, w.addr + 1, Lo(w.val)>> >>
              ELSE << <<"w", w.at, w.addr, w.val>> >>) \o QueuedBytes(Tail(ws))

\* the address of the instruction that would have been fetched next had the
\* interrupt entry at position i of the log not happened
NextInstruction(i) ==
    IF \E j \in IntIdx : j < i
    THEN LET j == CHOOSE j \in IntIdx : j < i /\ \A k \in IntIdx : k < i => k <= j
         IN  read_u16(Machine, "System", vector(log[j][2])).val
    ELSE IF Executed THEN op.o.new_ctx.pc ELSE op.reg.pc

\* C7: in every run-loop step an IRQ or FIRQ entry comes after the fetch of
\* the step's instruction, after the commit of its registers and after the
\* flush of all its queued writes, no fetch follows it within the step, and
\* the PC it pushes is the address of the instruction that would have been
\* executed next
C7_Boundary ==
    op.kind = "exec_one" =>
        \A i \in HwIntIdx :
            /\ \A j \in 1..Len(log) : log[j][1] \in {"fetch", "commit"} => j < i
            /\ Executed =>
                   /\ log[2] = <<"commit">>
                   /\ 2 + Len(QueuedBytes(op.o.writes)) < i
                   /\ SubSeq(log, 3, 2 + Len(QueuedBytes(op.o.writes)))
                          = QueuedBytes(op.o.writes)
            /\ Len(WritesAfter(i)) >= 2 =>
                   /\ WritesAfter(i)[1][2] = Hi(NextInstruction(i))
                   /\ WritesAfter(i)[2][2] = Lo(NextInstruction(i))

C7_Witness ==
    /\ op.kind = "exec_one"
    /\ Executed
    /\ op.o.writes # <<>>
    /\ op.o.writes[1].addr = 65281
    /\ BitAnd(op.reg.cc, 16) = 0
    /\ Len(log) > 12
    /\ log[Len(log) - 12] = <<"int", "Irq">>
    /\ WritesAfter(Len(log) - 12)[2][2] = Lo(op.o.new_ctx.pc)
    /\ op.o.new_ctx.pc # op.reg.pc
    /\ reg.pc = 1280
    /\ err = "ok"

-----------------------------------------------------------------------------
(* The device mutexes on their own: the emulation thread runs bus accesses *)
(* and hsync ticks, the display thread runs DeviceManager::update, and the *)
(* two interleave at every lock and unlock.                                *)

InitLock ==
    /\ InitDevices
    /\ InitCore
    /\ ram_top = 32767
    /\ acia = NoAcia
    /\ log = <<>>
    /\ op = NoOp
    /\ Quiescent

\* thread t, between two operations, begins one
Begin(t, prog) ==
    /\ locks.todo[t] = <<>>
    /\ locks' = [locks EXCEPT !.todo[t] = prog]
    /\ UNCHANGED <<busvars, cpuvars, log, op, audiovars, process>>

\* Mutex::lock returns once no thread holds the mutex
Lock(t) ==
    /\ locks.todo[t] # <<>>
    /\ Head(locks.todo[t])[1] = "lock"
    /\ Holder(locks, Head(locks.todo[t])[2]) = {}
    /\ locks' = MutexLock(locks, t)
    /\ UNCHANGED <<busvars, cpuvars, log, op, audiovars, process>>

\* the guard is dropped
Unlock(t) ==
    /\ locks.todo[t] # <<>>
    /\ Head(locks.todo[t])[1] = "unlock"
    /\ locks' = MutexUnlock(locks, t)
    /\ UNCHANGED <<busvars, cpuvars, log, op, audiovars, process>>

NextLock ==
    \/ \E t \in Threads : \E prog \in Programs(t) : Begin(t, prog)
    \/ \E t \in Threads : Lock(t)
    \/ \E t \in Threads : Unlock(t)

SpecLock == InitLock /\ [][NextLock]_vars

\* the mutex thread t is about to lock, if any
Wants(t) ==
    IF locks.todo[t] # <<>> /\ Head(locks.todo[t])[1] = "lock"
    THEN {Head(locks.todo[t])[2]} ELSE {}

\* thread t cannot take its next step
Blocked(t) == \E x \in Wants(t) : Holder(locks, x) # {}

\* the position of a mutex among those a thread holds, in order of locking
HeldAt(t, mutex) == {i \in 1..Len(locks.held[t]) : locks.held[t][i] = mutex}

\* C8: no interleaving of the emulation thread with the display thread
\* deadlocks on the PIA0, PIA1, SAM and VDG mutexes (a thread inside an
\* operation is never blocked on a mutex held by itself, and the threads
\* inside an operation are never all blocked); where a thread holds PIA0
\* and PIA1 together it locked PIA0 first, and no thread locks PIA0 while
\* it holds PIA1
C8_NoDeadlock ==
    /\ \A t \in Threads : \A x \in Wants(t) : t \notin Holder(locks, x)
    /\ (\E t \in Threads : locks.todo[t] # <<>>)
            => \E t \in Threads : locks.todo[t] # <<>> /\ ~Blocked(t)
    /\ \A t \in Threads : \A i \in HeldAt(t, "pia0"), j \in HeldAt(t, "pia1") : i < j
    /\ \A t \in Threads : "pia0" \in Wants(t) => HeldAt(t, "pia1") = {}

\* the emulation thread, inside a PIA0 access that needs PIA1, waits for
\* PIA1 while the display thread holds it together with the SAM
C8_Witness ==
    /\ locks.held["emu"] = <<"pia0">>
    /\ Wants("emu") = {"pia1"}
    /\ locks.held["display"] = <<"sam", "pia1">>

-----------------------------------------------------------------------------
(* The sound threads on their own: PIA1's sender, the pipeline thread and  *)
(* the device's output callback.  The pipeline thread and the callback     *)
(* interleave at each lock of the buffer pool; what a thread does between  *)
(* two locks touches only its own state.                                   *)

MaxChan == 1
MaxTaken == 5
MaxCalls == 2
\* op counts the samples the pipeline has taken up and the callback's
\* invocations while a sender is alive; of the sample the pipeline has in
\* hand it tells whether it was received from the channel and how many
\* times write_sample has appended it to a source buffer
Budget == [kind |-> "audio", taken |-> 0, calls |-> 0, recvd |-> FALSE, appended |-> 0]
Gaps == {0, 3}
SliceFrames == {2, 3}
Stale == 9

InitAudio ==
    /\ InitDevices
    /\ InitCore
    /\ ram_top = 32767
    /\ acia = NoAcia
    /\ log = <<>>
    /\ op = Budget
    /\ locks = NoLocks
    /\ pool = PoolNew
    /\ pipe = PipeNew
    /\ \E channels \in {1, 2} : cb = [CbNew EXCEPT !.channels = channels]
    /\ out = <<>>
    /\ sndr = TRUE
    /\ process = ProcessIdle

\* the rest of the machine stands still
SoundOnly ==
    UNCHANGED <<raw_ram, ram_top, acia, pia0, pia1, sam, cpuvars, log, lockvars, process>>

\* PIA1 sends a sample of data d / 32
AudioSend(d) ==
    /\ sndr
    /\ Len(chan) < MaxChan
    /\ chan' = Append(chan, d)
    /\ UNCHANGED <<pool, pipe, cb, out, op, sndr>>
    /\ SoundOnly

\* the top of the thread's loop: the pending sample, or one received
TakeSample ==
    /\ pipe.pc = "recv"
    /\ \/ /\ pipe.pending # <<>>
          /\ pipe' = [pipe EXCEPT !.sample = pipe.pending[1], !.pending = <<>>,
                                  !.pc = "get_buffer"]
          /\ UNCHANGED <<chan, op>>
       \/ /\ pipe.pending = <<>>
          /\ chan # <<>>
          /\ op.taken < MaxTaken \/ ~sndr
          /\ \E gap \in Gaps :
                pipe' = [pipe EXCEPT !.sample = IF Head(chan) = 0 THEN 0 ELSE 1,
                                     !.gap = gap, !.pc = "get_buffer"]
          /\ chan' = Tail(chan)
          /\ op' = [op EXCEPT !.taken = IF sndr THEN @ + 1 ELSE @, !.recvd = TRUE,
                               !.appended = 0]
    /\ UNCHANGED <<pool, cb, out, sndr>>
    /\ SoundOnly

\* try_recv finds the channel empty; quiet: no sample was received for a
\* buffer's duration, timeup: a sample period has passed since loop_time
NoSample(quiet, timeup) ==
    /\ pipe.pc = "recv"
    /\ pipe.pending = <<>>
    /\ chan = <<>>
    /\ sndr
    /\ op.taken < MaxTaken
    /\ LET p == IF quiet THEN [pipe EXCEPT !.last_written = 0, !.window = 0] ELSE pipe
       IN  pipe' = IF (p.buffer_opt # NoBuf \/ p.last_written # 0) /\ timeup
                   THEN [p EXCEPT !.sample = p.last_written, !.gap = SampleDuration,
                                  !.pc = "get_buffer"]
                   ELSE p
    /\ op' = IF pipe'.pc = "get_buffer"
             THEN [op EXCEPT !.taken = @ + 1, !.recvd = FALSE, !.appended = 0]
             ELSE op
    /\ UNCHANGED <<chan, pool, cb, out, sndr>>
    /\ SoundOnly

\* one turn of 'get_buffer up to the write of the sample
GetBuffer ==
    /\ pipe.pc = "get_buffer"
    /\ LET g == IF pipe.buffer_opt = NoBuf
                THEN get_empty_buffer(pool)
                ELSE [pool |-> pool, buf |-> pipe.buffer_opt]
           p == IF pipe.buffer_opt = NoBuf
                THEN [pipe EXCEPT !.buffer_index = 0, !.silent_buffer = TRUE]
                ELSE pipe
       IN  /\ pool' = g.pool
           /\ pipe' = IF g.buf = NoBuf
                      THEN [p EXCEPT !.pending = <<p.sample>>]
                      ELSE WriteIntoBuffer([p EXCEPT !.buffer_opt = NoBuf, !.buffer = g.buf])
    /\ op' = [op EXCEPT !.appended = IF pipe'.pc = "recv" THEN @ + 1 ELSE @]
    /\ UNCHANGED <<chan, cb, out, sndr>>
    /\ SoundOnly

\* the buffer has no room: it goes back to the pool
PutBuffer ==
    /\ pipe.pc = "put"
    /\ pool' = IF pipe.silent_buffer THEN put_empty_buffer(pool, pipe.buffer)
               ELSE put_full_buffer(pool, pipe.buffer)
    /\ pipe' = [pipe EXCEPT !.buffer = NoBuf, !.pc = "get_buffer"]
    /\ UNCHANGED <<chan, cb, out, op, sndr>>
    /\ SoundOnly

\* the callback has run from the top of its loop in c
CallbackStep(c, o) ==
    LET r == callback_top(c, pool, o)
    IN  /\ cb' = r.cb
        /\ pool' = r.pool
        /\ out' = r.out

\* the device calls the callback on a slice of frames frames
Callback(frames) ==
    /\ cb.pc = "idle"
    /\ op.calls < MaxCalls \/ ~sndr
    /\ op' = [op EXCEPT !.calls = IF sndr THEN @ + 1 ELSE @]
    /\ CallbackStep([cb EXCEPT !.sample_num = 0, !.starved = FALSE],
                    [i \in 1..(frames * cb.channels) |-> Stale])
    /\ UNCHANGED <<chan, pipe, sndr>>
    /\ SoundOnly

\* the callback hands back the source buffer it has drained
CallbackPutEmpty ==
    /\ cb.pc = "drained"
    /\ pool' = put_empty_buffer(pool, cb.buf)
    /\ cb' = [cb EXCEPT !.buf = NoBuf, !.pc = "top"]
    /\ UNCHANGED <<chan, pipe, out, op, sndr>>
    /\ SoundOnly

\* and goes round its outer loop
CallbackAgain ==
    /\ cb.pc = "top"
    /\ CallbackStep(cb, out)
    /\ UNCHANGED <<chan, pipe, op, sndr>>
    /\ SoundOnly

NextAudio ==
    \/ \E d \in {0, 16} : AudioSend(d)
    \/ TakeSample
    \/ \E quiet, timeup \in BOOLEAN : NoSample(quiet, timeup)
    \/ GetBuffer
    \/ PutBuffer
    \/ \E frames \in SliceFrames : Callback(frames)
    \/ CallbackPutEmpty
    \/ CallbackAgain

SpecAudio == InitAudio /\ [][NextAudio]_vars

\* the number of samples stored in the buffer b: SampleQue::len
BufLen(b) == Len(b.q) - b.head

\* C33: the assertion of write_sample holds in every reachable state: the
\* pipeline thread never panics, and the index it keeps for the buffer it
\* has in hand is the number of samples stored in that buffer, also after
\* an interpolation fill and after the buffer was taken from the empty queue
C33_IndexIsLen ==
    /\ pipe.pc # "panic"
    /\ pipe.buffer_opt # NoBuf => pipe.buffer_index = BufLen(pipe.buffer_opt)
    /\ pipe.buffer # NoBuf => pipe.buffer_index = BufLen(pipe.buffer)

\* interpolate_fill and write_sample have found the buffer in hand without
\* room, a received sample and its gap still to be written, while the
\* callback streams
C33_Witness ==
    /\ pipe.pc = "put"
    /\ pipe.gap > SampleDuration
    /\ op.recvd
    /\ pipe.buffer_index = BufferFrames
    /\ cb.streaming

\* the source buffers, by identity, wherever they are
InPool == [i \in 1..(Len(pool.empty) + Len(pool.full)) |->
                IF i <= Len(pool.empty) THEN pool.empty[i].id
                ELSE pool.full[i - Len(pool.empty)].id]
PipelineHolds == {b.id : b \in {pipe.buffer_opt, pipe.buffer} \ {NoBuf}}
CallbackHolds == {b.id : b \in {cb.buf_opt, cb.buf} \ {NoBuf}}

\* C9: the four source buffers are conserved and uniquely owned: the
\* lengths of the empty and the full queue, plus one for a buffer held by
\* the pipeline thread and one for a buffer held by the callback, add up to
\* 4; each of the two holds at most one; no buffer is in two places
C9_Conserved ==
    /\ Len(pool.empty) + Len(pool.full) + Cardinality(PipelineHolds)
            + Cardinality(CallbackHolds) = 4
    /\ pipe.buffer_opt = NoBuf \/ pipe.buffer = NoBuf
    /\ cb.buf_opt = NoBuf \/ cb.buf = NoBuf
    /\ \A i, j \in 1..Len(InPool) : InPool[i] = InPool[j] => i = j
    /\ \A i \in 1..Len(InPool) : InPool[i] \notin PipelineHolds \cup CallbackHolds
    /\ PipelineHolds \cap CallbackHolds = {}
    /\ {InPool[i] : i \in 1..Len(InPool)} \cup PipelineHolds \cup CallbackHolds = 1..4

\* a buffer in each of the four places at once
C9_Witness ==
    /\ Len(pool.empty) = 1
    /\ Len(pool.full) = 1
    /\ PipelineHolds # {}
    /\ CallbackHolds # {}

\* the frames of the output slice whose every channel is 0.0
ZeroFrames ==
    {f \in 0..((Len(out) \div cb.channels) - 1) :
        \A ch \in 1..cb.channels : out[f * cb.channels + ch] = 0}

\* C10: when the callback could not obtain a full buffer during an
\* invocation, streaming is marked stopped and, on return, every frame of
\* the output slice from the frame index of the underrun to the end is 0.0
\* on all channels
C10_ZeroFill ==
    (cb.pc = "idle" /\ cb.starved) =>
        /\ ~cb.streaming
        /\ \A f \in cb.sample_num..((Len(out) \div cb.channels) - 1) : f \in ZeroFrames

\* this step is the callback at the top of its outer loop, here without a
\* source buffer of its own
NeedsBuffer ==
    /\ \/ cb.pc = "idle" /\ op'.calls # op.calls
       \/ cb.pc = "top" /\ cb'.pc # "top"
    /\ cb.buf_opt = NoBuf

\* the source buffer the callback has in hand after the step
TakenId == IF cb'.buf # NoBuf THEN cb'.buf.id ELSE cb'.buf_opt.id

\* C11: the callback goes from not streaming to streaming only in a step in
\* which it takes a buffer from a full queue of at least two; while
\* streaming it takes the first full buffer whenever it needs one and the
\* queue is not empty; and it goes from streaming to not streaming exactly
\* when it needs a buffer and the full queue is empty
C11_Streaming ==
    [][/\ (~cb.streaming /\ cb'.streaming) =>
            /\ NeedsBuffer
            /\ Len(pool.full) >= 2
            /\ pool'.full = Tail(pool.full)
            /\ TakenId = Head(pool.full).id
       /\ (cb.streaming /\ NeedsBuffer /\ pool.full # <<>>) =>
            /\ pool'.full = Tail(pool.full)
            /\ TakenId = Head(pool.full).id
            /\ cb'.streaming
       /\ (cb.streaming /\ ~cb'.streaming) <=>
            (cb.streaming /\ NeedsBuffer /\ pool.full = <<>>)
      ]_vars

\* an invocation that streamed some frames and then found the full queue empty
C11_Witness ==
    /\ cb.pc = "idle"
    /\ cb.starved
    /\ ~cb.streaming
    /\ cb.sample_num > 0

\* the pipeline is at the top of its loop, done with a sample it received
\* from the channel
DoneWithReceived == pipe.pc = "recv" /\ op.recvd

\* C28: every AudioSample the pipeline takes from the channel is appended
\* to the stream of source buffers exactly once, also when no empty buffer
\* was to be had and the sample was parked as pending: never twice, and
\* once when the pipeline is back at the top of its loop
C28_AppendedOnce ==
    /\ op.recvd => op.appended <= 1
    /\ DoneWithReceived => op.appended = 1

\* what holds instead: a sample the pipeline is done with has been appended
\* at least once, and so has one that is pending at the top of the loop
AppendedBeforeTop ==
    /\ DoneWithReceived => op.appended >= 1
    /\ (pipe.pc = "recv" /\ pipe.pending # <<>>) => op.appended >= 1

\* a received sample that was parked has been appended a second time
AppendedTwice == op.recvd /\ op.appended = 2

-----------------------------------------------------------------------------
(* The end of the pipeline thread: the last Sender of the channel is       *)
(* dropped at some point of a run of the sound threads.  The pipeline     *)
(* thread keeps running and the device keeps calling the callback.        *)

\* the last Sender is dropped
DropSender ==
    /\ sndr
    /\ sndr' = FALSE
    /\ UNCHANGED <<chan, pool, pipe, cb, out, op>>
    /\ SoundOnly

\* try_recv that reports the missing sender before the queued samples
Disconnected_early ==
    /\ pipe.pc = "recv"
    /\ pipe.pending = <<>>
    /\ ~sndr
    /\ pipe' = [pipe EXCEPT !.pc = "done"]
    /\ UNCHANGED <<chan, pool, cb, out, op, sndr>>
    /\ SoundOnly

\* try_recv finds the channel empty and without a sender: the thread's loop ends
Disconnected ==
    /\ pipe.pc = "recv"
    /\ pipe.pending = <<>>
    /\ chan = <<>>
    /\ ~sndr
    /\ pipe' = [pipe EXCEPT !.pc = "done"]
    /\ UNCHANGED <<chan, pool, cb, out, op, sndr>>
    /\ SoundOnly

InitDrop ==
    /\ InitAudio
    /\ cb.channels = 1

\* a step of the pipeline thread
PipelineStep ==
    \/ TakeSample
    \/ \E quiet, timeup \in BOOLEAN : NoSample(quiet, timeup)
    \/ GetBuffer
    \/ PutBuffer
    \/ Disconnected

\* a step of the device's callback
CallbackRun ==
    \/ \E frames \in {BufferFrames + 1} : Callback(frames)
    \/ CallbackPutEmpty
    \/ CallbackAgain

NextDrop ==
    \/ AudioSend(16)
    \/ DropSender
    \/ PipelineStep
    \/ CallbackRun

SpecDrop == InitDrop /\ [][NextDrop]_vars /\ WF_vars(PipelineStep) /\ WF_vars(CallbackRun)

\* C12: once every sender of the channel has been dropped the pipeline
\* thread eventually terminates, and when it has terminated no sender is
\* left, the channel is empty and no sample is pending
C12_Terminates ==
    /\ [](pipe.pc = "done" => (~sndr /\ chan = <<>> /\ pipe.pending = <<>>))
    /\ (~sndr ~> pipe.pc = "done")

\* the thread has ended with a partly filled buffer in hand while the
\* callback streams
C12_Witness ==
    /\ pipe.pc = "done"
    /\ pipe.buffer_opt # NoBuf
    /\ cb.streaming

\* C31: every buffer the pipeline thread places in the full queue is
\* eventually consumed by the callback, provided the callback keeps being
\* invoked (which the device does without bound once the sender is gone),
\* also when the pipeline produces no further non-silent buffer: the full
\* queue is eventually empty
C31_FullConsumed == (~sndr /\ pool.full # <<>>) ~> pool.full = <<>>

\* C31 as the pre-roll allows it: the buffers in the full queue are
\* eventually consumed when the callback is streaming or a second buffer
\* is queued
C31_FullConsumedAmended ==
    (~sndr /\ pool.full # <<>> /\ (cb.streaming \/ full_buffer_count(pool) > 1))
        ~> pool.full = <<>>

\* two buffers wait for a callback that is not streaming, the sender gone
C31_Witness ==
    /\ ~sndr
    /\ ~cb.streaming
    /\ cb.pc = "idle"
    /\ full_buffer_count(pool) = 2

\* the thread has ended and a single full buffer waits for a callback that
\* is not streaming
LoneFullBuffer ==
    /\ pipe.pc = "done"
    /\ ~cb.streaming
    /\ cb.pc = "idle"
    /\ cb.buf_opt = NoBuf
    /\ full_buffer_count(pool) = 1

-----------------------------------------------------------------------------
(* One PiaSide on its own: side A of PIA1 (registers 0 and 1) stands for   *)
(* any of the four sides, all of the same struct.  Its methods are called *)
(* in any order; op keeps the call, the side before it, what it returned  *)
(* and whether it is a control-register read right after another.         *)

SideBytes == {0, 13, 25, 255}
SideInputs == {0, 165}
SideIndexes == 0..1

TheSide == pia1.ab[1]

NoCall ==
    [kind |-> "none", index |-> 0, b |-> 0, was |-> PiaSideDefault, val |-> 0,
     again |-> FALSE]

InitSide ==
    /\ InitDevices
    /\ InitCore
    /\ ram_top = 32767
    /\ acia = NoAcia
    /\ log = <<>>
    /\ op = NoCall
    /\ Quiescent

\* the side becomes s after the call kind(index, b), which returned val
SideCall(kind, index, b, s, val) ==
    /\ pia1' = [pia1 EXCEPT !.ab[1] = s]
    /\ op' = [kind |-> kind, index |-> index, b |-> b, was |-> TheSide, val |-> val,
              again |-> kind = "read" /\ index % 2 = 1 /\ op.kind = "read"
                            /\ op.index % 2 = 1]
    /\ UNCHANGED <<raw_ram, ram_top, acia, pia0, sam, chan, cpuvars, log, lockvars, process,
                   audiovars>>

SideWrite(index, b) == SideCall("write", index, b, PiaSideWrite(TheSide, index, b), 0)

SideRead(index) ==
    LET r == PiaSideRead(TheSide, index)
    IN  SideCall("read", index, 0, r.side, r.val)

SideSetC1(c1) == SideCall("set_c1", 0, IF c1 THEN 1 ELSE 0, set_c1(TheSide, c1), 0)

SideSetC2(c2) == SideCall("set_c2", 0, IF c2 THEN 1 ELSE 0, set_c2(TheSide, c2), 0)

SideConsume ==
    LET r == consume_interrupt(TheSide)
    IN  SideCall("consume_interrupt", 0, 0, r.side, IF r.val THEN 1 ELSE 0)

\* the peripheral presents b on the side's input lines
SideInput(b) == SideCall("input", 0, b, [TheSide EXCEPT !.ir = b], 0)

NextSide ==
    \/ \E index \in SideIndexes, b \in SideBytes : SideWrite(index, b)
    \/ \E index \in SideIndexes : SideRead(index)
    \/ \E c1 \in BOOLEAN : SideSetC1(c1)
    \/ \E c2 \in BOOLEAN : SideSetC2(c2)
    \/ SideConsume
    \/ \E b \in SideInputs : SideInput(b)

SpecSide == InitSide /\ [][NextSide]_vars

\* C13: a control-register write of b leaves CR bits 6-7 as they were and
\* sets CR bits 0-5 to those of b; a control-register read returns the
\* stored CR with bits 6-7; a read that follows a read at once returns the
\* same bits 0-5 with bits 6-7 clear
C13_Control ==
    [][/\ (op'.kind = "write" /\ op'.index % 2 = 1) =>
            /\ BitAnd(TheSide'.cr, 192) = BitAnd(TheSide.cr, 192)
            /\ BitAnd(TheSide'.cr, 63) = BitAnd(op'.b, 63)
       /\ (op'.kind = "read" /\ op'.index % 2 = 1) =>
            /\ op'.val = TheSide.cr
            /\ op'.again =>
                    /\ op'.val = BitAnd(op.val, 63)
                    /\ BitAnd(op'.val, 192) = 0
      ]_vars

\* a second read in a row, of a control register that holds some of bits 0-5
C13_Witness ==
    /\ op.again
    /\ op.val = 13
    /\ TheSide.cr = 13


ControlRead == op'.kind = "read" /\ op'.index % 2 = 1

\* C14: set_c1(true) while C1 was low leaves CR bit 7 set, whatever CR bits
\* 0-5 are; a read of the control register leaves CR bit 7 clear;
\* set_c1(true) while C1 is high and set_c1(false) leave CR as it was
C14_C1Edge ==
    [][/\ (op'.kind = "set_c1" /\ op'.b = 1 /\ ~TheSide.c1) => Bit(TheSide'.cr, 7)
       /\ (op'.kind = "set_c1" /\ ~(op'.b = 1 /\ ~TheSide.c1)) => TheSide'.cr = TheSide.cr
       /\ ControlRead => ~Bit(TheSide'.cr, 7)
      ]_vars

\* the control register is read with the C1 flag set and IRQ from C1
\* disabled, and the read clears the flag
C14_Witness ==
    /\ op.kind = "read"
    /\ op.index % 2 = 1
    /\ Bit(op.val, 7)
    /\ ~Bit(op.val, 0)
    /\ ~Bit(TheSide.cr, 7)
    /\ TheSide.c1

DataWrite == op'.kind = "write" /\ op'.index % 2 = 0

DataRead == op'.kind = "read" /\ op'.index % 2 = 0

\* C15: a data-register write of b stores b & DDR in OR when CR bit 2 is
\* set and b in DDR otherwise, and changes nothing else; a data-register
\* read returns, bit by bit, OR where DDR is 1 and IR where DDR is 0 when
\* CR bit 2 is set, and DDR otherwise, and leaves the side as it was
C15_Data ==
    [][/\ DataWrite =>
            IF Bit(TheSide.cr, 2)
            THEN /\ \A i \in 0..7 :
                        Bit(TheSide'.or, i) <=> (Bit(op'.b, i) /\ Bit(TheSide.ddr, i))
                 /\ TheSide' = [TheSide EXCEPT !.or = TheSide'.or]
            ELSE TheSide' = [TheSide EXCEPT !.ddr = op'.b]
       /\ DataRead =>
            /\ TheSide' = TheSide
            /\ IF Bit(TheSide.cr, 2)
               THEN \A i \in 0..7 :
                        Bit(op'.val, i) <=> IF Bit(TheSide.ddr, i)
                                            THEN Bit(TheSide.or, i)
                                            ELSE Bit(TheSide.ir, i)
               ELSE op'.val = TheSide.ddr
      ]_vars

\* a data read that mixes output bits and input bits
C15_Witness ==
    /\ op.kind = "read"
    /\ op.index % 2 = 0
    /\ Bit(TheSide.cr, 2)
    /\ TheSide.ddr = 13
    /\ TheSide.ir = 165
    /\ op.val = 173

\* the side after consume_interrupt cleared C1 if by1 and C2 if by2
Consumed(by1, by2) ==
    /\ op'.val = (IF by1 \/ by2 THEN 1 ELSE 0)
    /\ TheSide' = [TheSide EXCEPT !.c1 = IF by1 THEN FALSE ELSE @,
                                  !.c2 = IF by2 THEN FALSE ELSE @]

\* C16: consume_interrupt returns true exactly when C1 is high and CR bit 0
\* is set, or C2 is high and CR bits 3..5 are 001 (bit 3 set, bits 4 and 5
\* clear); it clears the lines that caused the interrupt and nothing else
C16_Consume ==
    [][op'.kind = "consume_interrupt" =>
            Consumed(TheSide.c1 /\ Bit(TheSide.cr, 0),
                     TheSide.c2 /\ Bit(TheSide.cr, 3) /\ ~Bit(TheSide.cr, 4)
                                /\ ~Bit(TheSide.cr, 5))
      ]_vars

\* C16 as the code has it: for C2 only CR bit 3 set and bit 5 clear are
\* required, bit 4 is not looked at
C16_ConsumeAmended ==
    [][op'.kind = "consume_interrupt" =>
            Consumed(TheSide.c1 /\ Bit(TheSide.cr, 0),
                     TheSide.c2 /\ Bit(TheSide.cr, 3) /\ ~Bit(TheSide.cr, 5))
      ]_vars

\* consume_interrupt returned true for C2 alone with CR bit 4 set
C16_Witness ==
    /\ op.kind = "consume_interrupt"
    /\ op.val = 1
    /\ ~op.was.c1
    /\ op.was.c2
    /\ Bit(op.was.cr, 4)
    /\ ~TheSide.c2


-----------------------------------------------------------------------------
(* The SAM on its own: sequences of writes to its control register, issued *)
(* directly (Sam::write) or through the bus, and bus reads of its window,  *)
(* with and without the ACIA at its default address 0xFFD0.  op.hist is    *)
(* the sequence of the writes issued so far.                               *)

MaxSamWrites == 3

\* one index pair for bit 0, the odd index of bit 8 (0xFFD1) and of bit 15
SamIndexes == {0, 1, 17, 31}

SamWindow == 65472..65503

\* the ACIA enabled at --acia-addr's default, holding a received byte
AciaDefault == [on |-> TRUE, base |-> 65488, rx |-> 90]

NoSamOp == [kind |-> "none", addr |-> 0, data |-> 0, val |-> 0, hist |-> <<>>]

InitSam ==
    /\ InitDevices
    /\ InitCore
    /\ ram_top = 32767
    /\ acia \in {NoAcia, AciaDefault}
    /\ log = <<>>
    /\ op = NoSamOp
    /\ Quiescent

\* Sam::write(index), called on the SAM itself
SamDirect(index) ==
    /\ Len(op.hist) < MaxSamWrites
    /\ sam' = SamWrite(sam, index)
    /\ op' = [kind |-> "sam", addr |-> index, data |-> 0, val |-> 0,
              hist |-> Append(op.hist, [bus |-> FALSE, index |-> index])]
    /\ log' = <<>>
    /\ UNCHANGED <<raw_ram, ram_top, acia, pia0, pia1, chan, cpuvars, lockvars, process, audiovars>>

\* a bus write of data to 0xFFC0 + index
SamBusWrite(index, data) ==
    /\ Len(op.hist) < MaxSamWrites
    /\ SetBus(write_u8(Machine, "Program", 65472 + index, data))
    /\ op' = [kind |-> "write", addr |-> 65472 + index, data |-> data, val |-> 0,
              hist |-> Append(op.hist, [bus |-> TRUE, index |-> index])]
    /\ UNCHANGED cpuvars

\* a bus read of 0xFFC0 + index
SamBusRead(index) ==
    LET r == read_u8(Machine, "Program", 65472 + index)
    IN  /\ SetBus(r.m)
        /\ op' = [kind |-> "read", addr |-> 65472 + index, data |-> 0, val |-> r.val,
                  hist |-> op.hist]
        /\ UNCHANGED cpuvars

NextSam ==
    \/ \E index \in SamIndexes : SamDirect(index)
    \/ \E index \in SamIndexes, data \in TestBytes : SamBusWrite(index, data)
    \/ \E index \in SamIndexes : SamBusRead(index)

SpecSam == InitSam /\ [][NextSam]_vars

\* the positions in op.hist of the writes in W that address bit k
Touching(W, k) == {i \in W : op.hist[i].index \div 2 = k}

\* bit k as the writes in W leave it: set iff the last of them is odd
LastIsOdd(W, k) ==
    /\ Touching(W, k) # {}
    /\ LET last == CHOOSE i \in Touching(W, k) : \A j \in Touching(W, k) : j <= i
       IN  op.hist[last].index % 2 = 1

\* the writes that reach the SAM: the direct ones and the bus writes to an
\* address the ACIA does not own
ReachSam ==
    {i \in 1..Len(op.hist) :
        ~op.hist[i].bus \/ ~owns_address(acia, 65472 + op.hist[i].index)}

\* C17: after every sequence of SAM writes, direct or through the bus with
\* any data byte, config bit k is set iff the last index addressing k is
\* odd, and a bus read of the SAM window returns 0 and leaves config alone
C17_SamConfig ==
    /\ \A k \in 0..15 : Bit(sam, k) <=> LastIsOdd(1..Len(op.hist), k)
    /\ (op.kind = "read" /\ op.addr \in SamWindow) => op.val = 0

\* C17 for the accesses that reach the SAM: a bus access to an address the
\* ACIA owns goes to the ACIA, which leaves config alone and answers reads
C17_SamConfigAmended ==
    /\ \A k \in 0..15 : Bit(sam, k) <=> LastIsOdd(ReachSam, k)
    /\ (op.kind = "read" /\ op.addr \in SamWindow /\ ~owns_address(acia, op.addr)) =>
            op.val = 0

\* bit 0 was set and cleared again, bit 15 is set by a bus write, and the
\* window has just been read
C17_Witness ==
    /\ op.kind = "read"
    /\ op.val = 0
    /\ Len(op.hist) = 3
    /\ op.hist[1].index = 1
    /\ op.hist[2].index = 0
    /\ op.hist[3] = [bus |-> TRUE, index |-> 31]
    /\ sam = 32768


-----------------------------------------------------------------------------
(* PIA1 on its own: writes to its four registers, PIA0 switching the DAC   *)
(* multiplexer, and the audio thread taking samples off the channel.       *)

MaxSent == 1

\* 12 selects the data register and, in register 3, enables sound; 252 is
\* the direction byte that makes the six DAC lines outputs
Pia1Bytes == {0, 12, 252}

Pia1Regs == 0..3

NoDacOp == [kind |-> "none", reg_num |-> 0, data |-> 0]

InitDac ==
    /\ InitDevices
    /\ InitCore
    /\ ram_top = 32767
    /\ acia = NoAcia
    /\ log = <<>>
    /\ op = NoDacOp
    /\ Quiescent

DacOnly == UNCHANGED <<raw_ram, ram_top, acia, pia0, sam, cpuvars, log, lockvars, process, audiovars>>

\* Pia1::write(reg_num, data)
DacWrite(reg_num, data) ==
    /\ Len(chan) < MaxSent
    /\ \E r \in {Pia1Write(pia1, chan, reg_num, data)} :
            /\ pia1' = r.pia1
            /\ chan' = r.chan
    /\ op' = [kind |-> "write", reg_num |-> reg_num, data |-> data]
    /\ DacOnly

\* Pia1::set_dac_mux(a, b), called by PIA0
DacMux(a, b) ==
    /\ pia1' = set_dac_mux(pia1, a, b)
    /\ op' = [kind |-> "mux", reg_num |-> 0, data |-> 0]
    /\ UNCHANGED chan
    /\ DacOnly

\* the audio thread receives the oldest sample
DacRecv ==
    /\ chan # <<>>
    /\ chan' = Tail(chan)
    /\ op' = [kind |-> "recv", reg_num |-> 0, data |-> 0]
    /\ UNCHANGED pia1
    /\ DacOnly

NextDac ==
    \/ \E reg_num \in Pia1Regs, data \in Pia1Bytes : DacWrite(reg_num, data)
    \/ \E a \in BOOLEAN, b \in BOOLEAN : DacMux(a, b)
    \/ DacRecv

SpecDac == InitDac /\ [][NextDac]_vars

\* side A's output after the DDR mask, bit by bit: OR where the line is an
\* output, 1 where it is an input
RECURSIVE OutputFrom(_, _)
OutputFrom(s, i) ==
    IF i > 7 THEN 0
    ELSE (IF Bit(s.ddr, i) => Bit(s.or, i) THEN 2 ^ i ELSE 0) + OutputFrom(s, i + 1)

OutputA(p1) == OutputFrom(p1.ab[1], 0)

\* a write to register 0 sends exactly one sample, 32 * data being
\* (v >> 2) - 31 and within lo..hi, iff sound is enabled and both
\* multiplexer bits are false, and none otherwise
DacSends(lo, hi) ==
    (op'.kind = "write" /\ op'.reg_num % 4 = 0) =>
        IF pia1.sound_enabled /\ ~pia1.dac_sel_a /\ ~pia1.dac_sel_b
        THEN /\ chan' = Append(chan, (OutputA(pia1') \div 4) - 31)
             /\ chan'[Len(chan')] \in lo..hi
        ELSE chan' = chan

\* C18: a write to PIA1 register 0 sends exactly one sample iff sound is
\* enabled and both DAC-mux bits are false, and none otherwise; its data is
\* ((v >> 2) - 31) / 32 for the side-A output v, which is in [-1, +1)
C18_DacSample == [][DacSends(-32, 31)]_vars

\* C18 with the range the formula has: [-31/32, +1], +1 for the DAC value 63
C18_DacSampleAmended == [][DacSends(-31, 32)]_vars

\* the DAC value 63 has just been written with all six lines outputs, and
\* the sample sent is +1
C18_Witness ==
    /\ op.kind = "write"
    /\ op.reg_num = 0
    /\ op.data = 252
    /\ pia1.ab[1].ddr = 252
    /\ pia1.ab[1].or = 252
    /\ chan = <<32>>


-----------------------------------------------------------------------------
(* Reset (runtime.rs, Core::reset).                                        *)

\* Core::force_reset_vector
force_reset_vector(m, addr) == write_u16(m, "System", 65534, addr)

\* Core::reset that does not look at the override
reset_no_override(m0) ==
    With([m0 EXCEPT !.reg = RegsDefault], LAMBDA m1 :
    With(read_u16(m1, "System", 65534), LAMBDA r :
        [r.m EXCEPT !.reg.pc = r.val, !.program_start = r.val, !.faulted = FALSE]))

\* Core::reset: Registers::reset clears the register set
reset(m0) ==
    With([m0 EXCEPT !.reg = RegsDefault], LAMBDA m1 :
    With(IF m1.reset_vector.some
         THEN force_reset_vector(m1, m1.reset_vector.addr)
         ELSE m1, LAMBDA m2 :
    With(read_u16(m2, "System", 65534), LAMBDA r :
        [r.m EXCEPT !.reg.pc = r.val, !.program_start = r.val, !.faulted = FALSE])))

\* the override address 0x1234
ResetVectors == {4660}

\* the bytes a loader stores in the reset vector
VectorBytes == {86}

\* --acia-enable with --acia-addr 0xFFFE, the device holding a byte
AciaOnVector == [on |-> TRUE, base |-> 65534, rx |-> 90]

InitReset ==
    /\ InitDevices
    /\ InitCore
    /\ ram_top = 32767
    /\ acia \in {NoAcia, AciaOnVector}
    /\ log = <<>>
    /\ op = NoOp
    /\ Quiescent

ResetOnly == UNCHANGED <<busvars, log, lockvars, process, audiovars>>

\* the override is configured
SetResetVector(a) ==
    /\ reset_vector' = SomeVector(a)
    /\ op' = NoOp
    /\ UNCHANGED <<reg, in_cwai, in_sync, cart_pending, err, program_start, faulted>>
    /\ ResetOnly

\* the program has run: the registers hold its values
Ran ==
    /\ reg' = [ProgramRegs EXCEPT !.cc = 80, !.s = 32780]
    /\ op' = NoOp
    /\ UNCHANGED <<in_cwai, in_sync, cart_pending, err, program_start, faulted, reset_vector>>
    /\ ResetOnly

\* the core has been marked as faulted
Fault ==
    /\ faulted' = TRUE
    /\ op' = NoOp
    /\ UNCHANGED <<reg, in_cwai, in_sync, cart_pending, err, program_start, reset_vector>>
    /\ ResetOnly

Reset ==
    /\ SetCore(reset(Machine))
    /\ op' = [kind |-> "reset", at |-> "System", addr |-> 65534, data |-> 0, val |-> 0,
              was |-> [reg |-> reg, faulted |-> faulted]]

NextReset ==
    \/ \E addr \in {65534, 65535}, data \in VectorBytes : BusWrite("System", addr, data)
    \/ \E a \in ResetVectors : SetResetVector(a)
    \/ Ran
    \/ Fault
    \/ Reset

SpecReset == InitReset /\ [][NextReset]_vars

\* the word the bus reads at 0xFFFE
VectorWord == read_u16(Machine, "System", 65534).val

\* the word kept where the vector window is mapped, 0xBFFE and 0xBFFF
PhysicalWord == Word(RamGet(raw_ram, 49150), RamGet(raw_ram, 49151))

\* PC and program_start are the word at 0xFFFE, the other registers are
\* zero and faulted is false
ResetState ==
    /\ reg.pc = VectorWord
    /\ program_start = reg.pc
    /\ \A r \in RegNames \ {"pc"} : reg[r] = 0
    /\ ~faulted

\* C19: after reset() PC and program_start are the word read through the
\* bus at 0xFFFE, which is the word kept at 0xBFFE/0xBFFF, every other
\* register is zero and faulted is false; with an override address a, PC = a
C19_Reset ==
    op.kind = "reset" =>
        /\ ResetState
        /\ reg.pc = PhysicalWord
        /\ reset_vector.some => reg.pc = reset_vector.addr

\* C19 where the ACIA may own the vector: the word read through the bus is
\* the one kept at 0xBFFE/0xBFFF, and the override address, only when no
\* ACIA owns 0xFFFE or 0xFFFF
C19_ResetAmended ==
    op.kind = "reset" =>
        /\ ResetState
        /\ (~owns_address(acia, 65534) /\ ~owns_address(acia, 65535)) =>
                /\ reg.pc = PhysicalWord
                /\ reset_vector.some => reg.pc = reset_vector.addr

\* a faulted core whose program had run was reset onto the override address
C19_Witness ==
    /\ op.kind = "reset"
    /\ op.was.faulted
    /\ op.was.reg.a # 0
    /\ reset_vector = SomeVector(4660)
    /\ reg = [RegsDefault EXCEPT !.pc = 4660]
    /\ program_start = 4660


-----------------------------------------------------------------------------
(* Fetch and decode at the top of the address space (runtime.rs,           *)
(* exec_next and process_addressing_mode).  A u16 addition written with +  *)
(* panics when the build checks overflow and wraps when it does not; both  *)
(* builds are modelled, chosen by checks.  The reads are those of          *)
(* _read_u8, which takes &self; the opcode table is a part of the 6809's.  *)

\* a + b on u16
WrapAdd(a, b, checks) ==
    IF a + b <= 65535 THEN [st |-> "ok", v |-> a + b, wrapped |-> FALSE]
    ELSE IF checks THEN [st |-> "panic", v |-> 0, wrapped |-> FALSE]
    ELSE [st |-> "ok", v |-> (a + b) % 65536, wrapped |-> TRUE]

\* Core::checked_pc_add: pc.checked_add(rhs), a Runtime error on overflow
checked_pc_add(pc, rhs) ==
    IF pc + rhs <= 65535 THEN [st |-> "ok", v |-> pc + rhs]
    ELSE [st |-> "runtime", v |-> 0]

FetchByte(m, addr) == read_u8(m, "Program", addr).val

\* Core::_read_u8u16: one byte, or _read_u16 with its addr + 1
ReadSized(m, addr, size, checks) ==
    IF size = 1 THEN [st |-> "ok", v |-> FetchByte(m, addr), wrapped |-> FALSE]
    ELSE With(WrapAdd(addr, 1, checks), LAMBDA a :
            IF a.st # "ok" THEN a
            ELSE [st |-> "ok", v |-> Word(FetchByte(m, addr), FetchByte(m, a.v)),
                  wrapped |-> a.wrapped])

is_high_byte_of_16bit_instruction(b) == b \in {16, 17}

\* NEG <, NOP, LBRA, BRA, LDA #, LDX #, LDA <, LDA ,X, LDA >, LDY #
Flavors ==
    {[op16 |-> 0,    mode |-> "Direct",    sz |-> 2],
     [op16 |-> 18,   mode |-> "Inherent",  sz |-> 1],
     [op16 |-> 22,   mode |-> "Relative",  sz |-> 3],
     [op16 |-> 32,   mode |-> "Relative",  sz |-> 2],
     [op16 |-> 134,  mode |-> "Immediate", sz |-> 2],
     [op16 |-> 142,  mode |-> "Immediate", sz |-> 3],
     [op16 |-> 150,  mode |-> "Direct",    sz |-> 2],
     [op16 |-> 166,  mode |-> "Indexed",   sz |-> 2],
     [op16 |-> 182,  mode |-> "Extended",  sz |-> 3],
     [op16 |-> 4238, mode |-> "Immediate", sz |-> 4]}

NoFlavor == [op16 |-> 0, mode |-> "none", sz |-> 0]

opcode_to_flavor(op16) ==
    IF \E f \in Flavors : f.op16 = op16
    THEN CHOOSE f \in Flavors : f.op16 = op16
    ELSE NoFlavor

\* the loop that reads the opcode: the second byte is at pc + inst.size
Opcode(m, pc, checks) ==
    With(FetchByte(m, pc), LAMBDA b0 :
        IF ~is_high_byte_of_16bit_instruction(b0)
        THEN [st |-> "ok", op16 |-> b0, size |-> 1, wrapped |-> FALSE]
        ELSE With(WrapAdd(pc, 1, checks), LAMBDA a :
                IF a.st # "ok"
                THEN [st |-> a.st, op16 |-> 0, size |-> 1, wrapped |-> FALSE]
                ELSE [st |-> "ok", op16 |-> Word(b0, FetchByte(m, a.v)), size |-> 2,
                      wrapped |-> a.wrapped]))

\* the bytes the addressing mode reads after the opcode
OperandSize(f, size) ==
    CASE f.mode \in {"Immediate", "Relative"} -> f.sz - size
      [] f.mode = "Direct" -> 1
      [] f.mode = "Extended" -> 2
      [] OTHER -> 0

\* the 5-bit offset taken without its sign
SignExtend5_unsigned(pb) == pb % 32

\* b as i8 as u16, and a 5-bit offset widened the same way
SignExtend8(b) == IF b >= 128 THEN b + 65280 ELSE b
SignExtend5(pb) == IF pb % 32 >= 16 THEN (pb % 32) + 65504 ELSE pb % 32

\* u16::overflowing_add and overflowing_sub, the flag dropped
Add16(a, b) == (a + b) % 65536
Sub16(a, b) == (a + 65536 - b) % 65536

\* the register the post-byte's rr field selects
IndexRegister(pb) ==
    CASE (pb \div 32) % 4 = 0 -> "x"
      [] (pb \div 32) % 4 = 1 -> "y"
      [] (pb \div 32) % 4 = 2 -> "u"
      [] OTHER -> "s"

\* what an arm of process_addressing_mode returns
Resolved(st, ctx, size, ea, wrapped) ==
    [st |-> st, ctx |-> ctx, size |-> size, ea |-> ea, wrapped |-> wrapped]

\* the arms of the indexed mode that read an offset or an address of n
\* bytes at live_ctx.pc + inst.size; pcrel: the offset is from the next
\* instruction; plain: the bytes are the address itself
IndexedOperand(m, ctx, size, n, base, pcrel, plain, checks) ==
    With(WrapAdd(ctx.pc, size, checks), LAMBDA a :
        IF a.st # "ok" THEN Resolved(a.st, ctx, size, 0, FALSE)
        ELSE
        With(ReadSized(m, a.v, n, checks), LAMBDA r :
            IF r.st # "ok" THEN Resolved(r.st, ctx, size, 0, a.wrapped)
            ELSE Resolved("ok", ctx, size + n,
                          IF plain THEN r.v
                          ELSE Add16(IF pcrel THEN Add16(ctx.pc, size + n) ELSE base,
                                     IF n = 1 THEN SignExtend8(r.v) ELSE r.v),
                          a.wrapped \/ r.wrapped)))

\* the match on pb & 0x8f with the illegal indirect forms accepted
IndexedArm_lenient(m, ctx, size, pb, checks) ==
    With(IndexRegister(pb), LAMBDA rn :
    With(BitAnd(pb, 143), LAMBDA sub :
        CASE sub < 128 -> Resolved("ok", ctx, size, Add16(ctx[rn], SignExtend5(pb)), FALSE)
          [] sub = 128 ->
                Resolved("ok", [ctx EXCEPT ![rn] = Add16(ctx[rn], 1)], size, ctx[rn], FALSE)
          [] sub = 129 ->
                Resolved("ok", [ctx EXCEPT ![rn] = Add16(ctx[rn], 2)], size, ctx[rn], FALSE)
          [] sub = 130 ->
                Resolved("ok", [ctx EXCEPT ![rn] = Sub16(ctx[rn], 1)], size,
                         Sub16(ctx[rn], 1), FALSE)
          [] sub = 131 ->
                Resolved("ok", [ctx EXCEPT ![rn] = Sub16(ctx[rn], 2)], size,
                         Sub16(ctx[rn], 2), FALSE)
          [] sub = 132 -> Resolved("ok", ctx, size, ctx[rn], FALSE)
          [] sub = 133 -> Resolved("ok", ctx, size, Add16(ctx[rn], SignExtend8(ctx.b)), FALSE)
          [] sub = 134 -> Resolved("ok", ctx, size, Add16(ctx[rn], SignExtend8(ctx.a)), FALSE)
          [] sub = 136 -> IndexedOperand(m, ctx, size, 1, ctx[rn], FALSE, FALSE, checks)
          [] sub = 137 -> IndexedOperand(m, ctx, size, 2, ctx[rn], FALSE, FALSE, checks)
          [] sub = 139 ->
                Resolved("ok", ctx, size, Add16(ctx[rn], Word(ctx.a, ctx.b)), FALSE)
          [] sub = 140 -> IndexedOperand(m, ctx, size, 1, 0, TRUE, FALSE, checks)
          [] sub = 141 -> IndexedOperand(m, ctx, size, 2, 0, TRUE, FALSE, checks)
          [] sub = 143 -> IndexedOperand(m, ctx, size, 2, 0, FALSE, TRUE, checks)
          [] OTHER -> Resolved("syntax", ctx, size, 0, FALSE)))

\* the match on pb & 0x8f: the arm of the sub-mode, on the live context
IndexedArm(m, ctx, size, pb, checks) ==
    With(IndexRegister(pb), LAMBDA rn :
    With(BitAnd(pb, 143), LAMBDA sub :
        CASE sub < 128 -> Resolved("ok", ctx, size, Add16(ctx[rn], SignExtend5(pb)), FALSE)
          [] sub = 128 ->
                IF BitAnd(pb, 144) = 144 THEN Resolved("syntax", ctx, size, 0, FALSE)
                ELSE Resolved("ok", [ctx EXCEPT ![rn] = Add16(ctx[rn], 1)], size, ctx[rn],
                              FALSE)
          [] sub = 129 ->
                Resolved("ok", [ctx EXCEPT ![rn] = Add16(ctx[rn], 2)], size, ctx[rn], FALSE)
          [] sub = 130 ->
                IF BitAnd(pb, 144) = 144 THEN Resolved("syntax", ctx, size, 0, FALSE)
                ELSE Resolved("ok", [ctx EXCEPT ![rn] = Sub16(ctx[rn], 1)], size,
                              Sub16(ctx[rn], 1), FALSE)
          [] sub = 131 ->
                Resolved("ok", [ctx EXCEPT ![rn] = Sub16(ctx[rn], 2)], size,
                         Sub16(ctx[rn], 2), FALSE)
          [] sub = 132 -> Resolved("ok", ctx, size, ctx[rn], FALSE)
          [] sub = 133 -> Resolved("ok", ctx, size, Add16(ctx[rn], SignExtend8(ctx.b)), FALSE)
          [] sub = 134 -> Resolved("ok", ctx, size, Add16(ctx[rn], SignExtend8(ctx.a)), FALSE)
          [] sub = 136 -> IndexedOperand(m, ctx, size, 1, ctx[rn], FALSE, FALSE, checks)
          [] sub = 137 -> IndexedOperand(m, ctx, size, 2, ctx[rn], FALSE, FALSE, checks)
          [] sub = 139 ->
                Resolved("ok", ctx, size, Add16(ctx[rn], Word(ctx.a, ctx.b)), FALSE)
          [] sub = 140 -> IndexedOperand(m, ctx, size, 1, 0, TRUE, FALSE, checks)
          [] sub = 141 -> IndexedOperand(m, ctx, size, 2, 0, TRUE, FALSE, checks)
          [] sub = 143 -> IndexedOperand(m, ctx, size, 2, 0, FALSE, TRUE, checks)
          [] OTHER -> Resolved("syntax", ctx, size, 0, FALSE)))

\* the indexed arm of process_addressing_mode: the post-byte, its sub-mode
\* and, with the indirect flag, the read of the address kept at inst.ea
Indexed(m, ctx, size, checks) ==
    With(checked_pc_add(ctx.pc, size), LAMBDA at :
        IF at.st # "ok" THEN Resolved(at.st, ctx, size, 0, FALSE)
        ELSE
        With(FetchByte(m, at.v), LAMBDA pb :
        With(IndexedArm(m, ctx, size + 1, pb, checks), LAMBDA r :
            IF r.st # "ok" \/ BitAnd(pb, 144) # 144 THEN r
            ELSE With(ReadSized(m, r.ea, 2, checks), LAMBDA i :
                    Resolved(i.st, r.ctx, r.size, i.v, r.wrapped \/ i.wrapped)))))

\* Core::process_addressing_mode: where the operand is, the read of it, the
\* size of the instruction and the live context
process_addressing_mode(m, pc, f, size, checks) ==
    IF f.mode = "Inherent" THEN Resolved("ok", m.reg, size, 0, FALSE)
    ELSE IF f.mode = "Indexed" THEN Indexed(m, m.reg, size, checks)
    ELSE
    With(checked_pc_add(pc, size), LAMBDA ea :
        IF ea.st # "ok" THEN Resolved(ea.st, m.reg, size, 0, FALSE)
        ELSE
        With(ReadSized(m, ea.v, OperandSize(f, size), checks), LAMBDA r :
            IF r.st # "ok" THEN Resolved(r.st, m.reg, size, 0, FALSE)
            ELSE IF f.mode = "Relative"
                    /\ checked_pc_add(pc, size + OperandSize(f, size)).st # "ok"
            THEN Resolved("runtime", m.reg, size, 0, r.wrapped)
            ELSE Resolved("ok", m.reg, size + OperandSize(f, size), r.v, r.wrapped)))

\* Core::exec_next up to the commit of the live context with the new PC:
\* the machine after it, whether an address wrapped on the way, and whether
\* instruction_count and clock_cycles were advanced
exec_next_fetch(m, checks) ==
    With(Opcode(m, m.reg.pc, checks), LAMBDA o :
        IF o.st # "ok"
        THEN [m |-> [m EXCEPT !.err = o.st], wrapped |-> FALSE, counted |-> FALSE]
        ELSE
        With(opcode_to_flavor(o.op16), LAMBDA f :
            IF f = NoFlavor
            THEN [m |-> [m EXCEPT !.err = "runtime"], wrapped |-> o.wrapped,
                  counted |-> FALSE]
            ELSE
            With(process_addressing_mode(m, m.reg.pc, f, o.size, checks), LAMBDA p :
                IF p.st # "ok"
                THEN [m |-> [m EXCEPT !.err = p.st], wrapped |-> o.wrapped \/ p.wrapped,
                      counted |-> FALSE]
                ELSE
                With(checked_pc_add(m.reg.pc, p.size), LAMBDA n :
                    [m |-> IF n.st # "ok" THEN [m EXCEPT !.err = n.st]
                           ELSE [m EXCEPT !.reg = [p.ctx EXCEPT !.pc = n.v]],
                     wrapped |-> o.wrapped \/ p.wrapped,
                     counted |-> n.st = "ok"]))))

FetchPCs == 65530..65535

\* one instruction of each flavor but NEG
Encodings ==
    {<<18>>, <<22, 0, 1>>, <<32, 1>>, <<134, 1>>, <<142, 1, 2>>, <<150, 1>>,
     <<166, 0>>, <<182, 1, 2>>, <<16, 142, 1, 2>>}

\* where byte i of an instruction at pc is kept: in the vector window's
\* memory, or from 0x0000 on for the bytes that do not fit below 0x10000
PlaceOf(pc, i) ==
    IF pc + i - 1 <= 65535 THEN pc + i - 1 - 16384 ELSE pc + i - 1 - 65536

Placed(pc, enc) == Poke(EmptyRam, [i \in 1..Len(enc) |-> <<PlaceOf(pc, i), enc[i]>>])

InitFetch ==
    /\ \E pc \in FetchPCs, enc \in Encodings :
            /\ raw_ram = Placed(pc, enc)
            /\ reg = [ProgramRegs EXCEPT !.pc = pc]
            /\ op = [kind |-> "none", at |-> pc, enc |-> enc]
    /\ pia0 = Pia0New
    /\ pia1 = Pia1New
    /\ sam = 0
    /\ chan = <<>>
    /\ ram_top = 32767
    /\ acia = NoAcia
    /\ in_cwai = FALSE
    /\ in_sync = FALSE
    /\ cart_pending = FALSE
    /\ program_start = 0
    /\ faulted = FALSE
    /\ reset_vector = NoVector
    /\ err = "ok"
    /\ log = <<>>
    /\ Quiescent

\* exec_next, built with or without overflow checks
ExecNext(checks) ==
    /\ err = "ok"
    /\ \E r \in {exec_next_fetch(Machine, checks)} :
            /\ SetCore(r.m)
            /\ op' = [kind |-> "exec_next", at |-> op.at, enc |-> op.enc, pc |-> reg.pc,
                      reg |-> reg, ram |-> raw_ram, checks |-> checks,
                      wrapped |-> r.wrapped, counted |-> r.counted]

NextFetch == \E checks \in BOOLEAN : ExecNext(checks)

SpecFetch == InitFetch /\ [][NextFetch]_vars

\* exec_next has just run on the instruction placed, of which some byte or
\* the address after it lies beyond 0xFFFF
FetchedBeyond ==
    /\ op.kind = "exec_next"
    /\ op.pc = op.at
    /\ op.at + Len(op.enc) > 65535

\* C20: exec_next on an instruction of which some byte, or the address
\* following it, lies beyond 0xFFFF returns a Runtime error, without
\* wrapping an address to 0x0000 and without an overflow panic, and leaves
\* registers and memory as they were
C20_FetchOverflow ==
    FetchedBeyond =>
        /\ err = "runtime"
        /\ ~op.wrapped
        /\ reg = op.reg
        /\ raw_ram = op.ram


----------------------------------------------------------------------------
\* SpecIndexed: LDA with every indexed post-byte, at 0x0100 in RAM

IndexedAt == 256
PostBytes == 0..255
MaxIndexed == 2

\* the index registers told apart by their values
IndexedRegs == [ProgramRegs EXCEPT !.s = 23364, !.pc = IndexedAt]

InitIndexed ==
    /\ \E pb \in PostBytes :
            /\ raw_ram = Poke(EmptyRam, <<<<IndexedAt, 166>>, <<IndexedAt + 1, pb>>,
                                          <<IndexedAt + 2, 1>>, <<IndexedAt + 3, 2>>>>)
            /\ op = [kind |-> "none", pb |-> pb, n |-> 0]
    /\ reg = IndexedRegs
    /\ pia0 = Pia0New
    /\ pia1 = Pia1New
    /\ sam = 0
    /\ chan = <<>>
    /\ ram_top = 32767
    /\ acia = NoAcia
    /\ in_cwai = FALSE
    /\ in_sync = FALSE
    /\ cart_pending = FALSE
    /\ program_start = 0
    /\ faulted = FALSE
    /\ reset_vector = NoVector
    /\ err = "ok"
    /\ log = <<>>
    /\ Quiescent

\* exec_next on the instruction at PC
ExecIndexed(checks) ==
    /\ err = "ok"
    /\ op.n < MaxIndexed
    /\ \E r \in {exec_next_fetch(Machine, checks)} :
            /\ SetCore(r.m)
            /\ op' = [kind |-> "exec_next", pb |-> op.pb, n |-> op.n + 1, pc |-> reg.pc,
                      reg |-> reg, ram |-> raw_ram, bus |-> busvars,
                      counted |-> r.counted]

NextIndexed == \E checks \in BOOLEAN : ExecIndexed(checks)

SpecIndexed == InitIndexed /\ [][NextIndexed]_vars

\* the post-bytes of the indirect forms of ,R+ and ,-R for X, Y, U and S,
\* and those of the sub-modes the decoder does not know
IllegalPostBytes ==
    {144 + 32 * r : r \in 0..3} \cup {146 + 32 * r : r \in 0..3}
        \cup {pb \in 128..255 : pb % 16 \in {7, 10, 14}}

\* C21: exec_next on an indexed instruction whose post-byte is the indirect
\* form of ,R+ or ,-R, for any of X, Y, U and S, or names a sub-mode that is
\* not defined, returns a Syntax error and leaves the registers, the index
\* register and PC among them, the memory, the devices and the instruction
\* and cycle counters as they were
C21_IllegalIndexed ==
    (op.kind = "exec_next" /\ op.pc = IndexedAt /\ op.pb \in IllegalPostBytes) =>
        /\ err = "syntax"
        /\ reg = op.reg
        /\ raw_ram = op.ram
        /\ busvars = op.bus
        /\ ~op.counted

C21_Witness ==
    /\ op.kind = "exec_next"
    /\ op.pc = IndexedAt
    /\ op.pb = 178
    /\ err = "syntax"
    /\ reg.y = IndexedRegs.y


----------------------------------------------------------------------------
\* SpecHex: load_hex of a record collection, then reads through the bus

\* the length of the RAM vector the device manager allocates
RamLen == 65536

MaxRecords == 3
HexAddresses == {256, 257, 32768, 65534, 65535}
HexData == {<<170>>, <<187, 204>>}
HexReadAddrs == {256, 257, 258, 32768, 32769, 65534, 65535}
HexAccess == {"Program", "System"}

\* the records a collection is made of: Data, EndOfFile, and a type that
\* load_hex ignores
HexRecords ==
    [record_type : {"Data"}, address : HexAddresses, data : HexData]
        \cup {[record_type |-> "EndOfFile", address |-> 0, data |-> <<>>],
              [record_type |-> "ExtendedLinearAddress", address |-> 0, data |-> <<>>]}

HexCollections == UNION {[1..n -> HexRecords] : n \in 0..MaxRecords}

\* the inner loop of load_hex: the bytes of one record into raw_ram
RECURSIVE CopyData(_, _, _)
CopyData(ram, addr, data) ==
    IF data = <<>> THEN ram
    ELSE CopyData(RamSet(ram, addr, Head(data)), addr + 1, Tail(data))

\* Core::load_hex: the records in order up to the first EndOfFile
RECURSIVE load_hex_from(_, _, _)
load_hex_from(m, hex, extent) ==
    IF hex = <<>> THEN [m |-> m, st |-> "general", extent |-> extent]
    ELSE
    With(Head(hex), LAMBDA r :
        CASE r.record_type = "Data" ->
                IF r.address + Len(r.data) > RamLen
                THEN [m |-> m, st |-> "memory", extent |-> extent]
                ELSE load_hex_from([m EXCEPT !.raw_ram = CopyData(m.raw_ram, r.address, r.data)],
                                   Tail(hex), extent + Len(r.data))
          [] r.record_type = "EndOfFile" -> [m |-> m, st |-> "ok", extent |-> extent]
          [] OTHER -> load_hex_from(m, Tail(hex), extent))

load_hex(m, hex) == load_hex_from(m, hex, 0)

InitHex ==
    /\ \E hex \in HexCollections : op = [kind |-> "none", hex |-> hex, st |-> "none"]
    /\ InitDevices
    /\ InitCore
    /\ ram_top = 32767
    /\ acia = NoAcia
    /\ log = <<>>
    /\ Quiescent

\* the collection is loaded once, before anything runs
LoadHex ==
    /\ op.kind = "none"
    /\ \E r \in {load_hex(Machine, op.hex)} :
            /\ SetBus(r.m)
            /\ op' = [kind |-> "load_hex", hex |-> op.hex, st |-> r.st, extent |-> r.extent]
    /\ UNCHANGED cpuvars

\* a read8 through the bus after the load
HexRead(at, addr) ==
    /\ op.kind # "none"
    /\ \E r \in {read_u8(Machine, at, addr)} :
            /\ SetBus(r.m)
            /\ op' = [kind |-> "read", hex |-> op.hex, st |-> op.st, at |-> at,
                      addr |-> addr, val |-> r.val]
    /\ UNCHANGED cpuvars

NextHex ==
    \/ LoadHex
    \/ \E at \in HexAccess, addr \in HexReadAddrs : HexRead(at, addr)

SpecHex == InitHex /\ [][NextHex]_vars

\* the index of the first EndOfFile record, 0 when there is none
FirstEof(hex) ==
    IF \E i \in 1..Len(hex) : hex[i].record_type = "EndOfFile"
    THEN CHOOSE i \in 1..Len(hex) :
            /\ hex[i].record_type = "EndOfFile"
            /\ \A j \in 1..(i - 1) : hex[j].record_type # "EndOfFile"
    ELSE 0

\* the Data records before the EndOfFile record that hold address a
Covering(hex, a) ==
    {i \in 1..(FirstEof(hex) - 1) :
        /\ hex[i].record_type = "Data"
        /\ hex[i].address <= a
        /\ a < hex[i].address + Len(hex[i].data)}

\* the byte the last of them gives to a
HexByte(hex, a) ==
    With(CHOOSE i \in Covering(hex, a) : \A j \in Covering(hex, a) : j <= i, LAMBDA i :
        hex[i].data[a - hex[i].address + 1])

\* the read just made was of an address that a loaded record holds
ReadOfRecord ==
    /\ op.kind = "read"
    /\ op.st = "ok"
    /\ Covering(op.hex, op.addr) # {}

\* C22: after load_hex returned Ok, a bus read8 at an address inside a Data
\* record that precedes the EndOfFile record returns that record's byte
\* (the later record's where records overlap), above ram_top too; a
\* collection without an EndOfFile record makes load_hex return an error
C22_HexReadBack ==
    /\ ReadOfRecord => op.val = HexByte(op.hex, op.addr)
    /\ (op.kind # "none" /\ FirstEof(op.hex) = 0) => op.st # "ok"

\* the same for the addresses below the device registers
HexReadBackBelowDevices ==
    /\ (ReadOfRecord /\ op.addr <= 65279) => op.val = HexByte(op.hex, op.addr)
    /\ (op.kind # "none" /\ FirstEof(op.hex) = 0) => op.st # "ok"
    /\ (op.kind = "read" /\ op.st = "ok" /\ op.addr <= 65279
            /\ Covering(op.hex, op.addr) = {}) => op.val = 0

\* a record at the vectors was loaded and read back
HexVectorRead ==
    /\ ReadOfRecord
    /\ op.addr >= 65504


----------------------------------------------------------------------------
\* SpecMain: main, the emulation thread it spawns, and the exit status

\* main has spawned the emulation thread and is in its update loop
ProcessStart == [ProcessIdle EXCEPT !.main = "loop", !.core = "loading"]

\* the file of --load: one with its EndOfFile record and one without
MainFiles ==
    {<<[record_type |-> "Data", address |-> 80, data |-> <<170>>],
       [record_type |-> "EndOfFile", address |-> 0, data |-> <<>>]>>,
     <<[record_type |-> "Data", address |-> 80, data |-> <<170>>]>>}

\* the memory after loading a ROM that leaves the IRQ vector unset: the
\* vector reads 0x0000, and the byte there is zero
NoIrqVectorRam ==
    RamSet(RamSet(LoadedRam, vector("Irq") - 16384, 0), vector("Irq") - 16383, 0)

InitMain ==
    /\ raw_ram = NoIrqVectorRam
    /\ InitCore
    /\ pia0 = Pia0New
    /\ pia1 = Pia1New
    /\ sam = 0
    /\ chan = <<>>
    /\ ram_top = 32767
    /\ acia = NoAcia
    /\ log = <<>>
    /\ op = [kind |-> "none"]
    /\ locks = NoLocks
    /\ pool = PoolNew
    /\ pipe = PipeNew
    /\ cb = CbNew
    /\ out = <<>>
    /\ sndr = TRUE
    /\ process = ProcessStart

\* the core becomes m; the process is left to the action
SetMachine(m) ==
    /\ raw_ram' = m.raw_ram
    /\ pia0' = m.pia0
    /\ pia1' = m.pia1
    /\ sam' = m.sam
    /\ chan' = m.chan
    /\ log' = m.log
    /\ reg' = m.reg
    /\ in_cwai' = m.in_cwai
    /\ in_sync' = m.in_sync
    /\ cart_pending' = m.cart_pending
    /\ err' = m.err
    /\ program_start' = m.program_start
    /\ faulted' = m.faulted
    /\ reset_vector' = m.reset_vector
    /\ UNCHANGED <<ram_top, acia, lockvars, audiovars>>

\* the stack top the program sets
MainStackTop == 16

\* the status of a process ended by abort (SIGABRT)
AbortStatus == 134

\* the closure of thread::spawn after compute_thread has returned: the
\* error, if any, is printed and simulation_complete is stored
ThreadEnd(p, failed) ==
    [p EXCEPT !.core = "ended", !.reported = failed, !.complete = TRUE]

\* compute_thread up to core.reset(): the file is loaded, and an error of
\* the load ends the thread
CoreLoad(hex) ==
    /\ process.main = "loop"
    /\ process.core = "loading"
    /\ \E r \in {load_hex(Machine, hex)} :
            IF r.st = "ok"
            THEN /\ SetMachine(reset(r.m))
                 /\ process' = [process EXCEPT !.core = "running"]
            ELSE /\ SetMachine([r.m EXCEPT !.err = r.st])
                 /\ process' = ThreadEnd(process, TRUE)
    /\ op' = [kind |-> "load", hex |-> hex]

\* a panic in the emulation thread: the build either unwinds the thread,
\* whose closure is left before it stores simulation_complete, or aborts
\* the process
ThreadPanic(p) ==
    {[p EXCEPT !.core = "panicked"],
     [p EXCEPT !.core = "panicked", !.main = "aborted", !.status = AbortStatus]}

\* what the instruction at PC can be: NOP, ANDCC #$AF, a store that enables
\* the hsync IRQ, an LDS that sets up a stack, SWI2, EXIT, or an opcode that
\* does not decode
MainOutcomes(r) ==
    {Plain(r),
     [Plain(r) EXCEPT !.new_ctx.cc = BitAnd(r.cc, 175)],
     Store(r, 65281, 1, 1),
     [Plain(r) EXCEPT !.new_ctx.s = MainStackTop],
     [Plain(r) EXCEPT !.meta = "Swi2"],
     [Plain(r) EXCEPT !.meta = "EXIT"],
     [Plain(r) EXCEPT !.bad = TRUE]}

\* one turn of the loop of Core::exec, the debugger disabled: exec_one, the
\* break on Exit, the return of any other error, the break on --time
CoreExec(o, hs, expired) ==
    /\ process.main = "loop"
    /\ process.core = "running"
    /\ \E m \in {exec_one(Machine, o, hs, FALSE)} :
            /\ SetMachine(m)
            /\ process' \in CASE m.err = "panic" -> ThreadPanic(process)
                              [] m.err = "exit" -> {ThreadEnd(process, FALSE)}
                              [] m.err # "ok" -> {ThreadEnd(process, TRUE)}
                              [] expired -> {ThreadEnd(process, FALSE)}
                              [] OTHER -> {process}
    /\ op' = [kind |-> "exec_one", o |-> o, hs |-> hs, vs |-> FALSE, reg |-> reg,
              in_cwai |-> in_cwai, in_sync |-> in_sync, expired |-> expired]

\* the body of main's loop; the window may be closed meanwhile
MainUpdate(closed) ==
    /\ process.main = "loop"
    /\ process.window
    /\ ~process.complete
    /\ process' = [process EXCEPT !.window = ~closed]
    /\ UNCHANGED <<busvars, cpuvars, log, op, lockvars, audiovars>>

\* the loop's condition fails and main returns: the process exits with the
\* status of a main that returned ()
MainReturn ==
    /\ process.main = "loop"
    /\ ~process.window \/ process.complete
    /\ process' = [process EXCEPT !.main = "returned", !.status = 0]
    /\ UNCHANGED <<busvars, cpuvars, log, op, lockvars, audiovars>>

NextMain ==
    \/ \E hex \in MainFiles : CoreLoad(hex)
    \/ \E o \in IF in_cwai \/ in_sync THEN {Plain(reg)} ELSE MainOutcomes(reg) :
            \E hs, expired \in BOOLEAN : CoreExec(o, hs, expired)
    \/ \E closed \in BOOLEAN : MainUpdate(closed)
    \/ MainReturn

SpecMain == InitMain /\ [][NextMain]_vars

\* main's loop leaves by its condition when it can, and the emulation
\* thread keeps running while it has not stopped
CoreStep ==
    \/ \E hex \in MainFiles : CoreLoad(hex)
    \/ \E o \in IF in_cwai \/ in_sync THEN {Plain(reg)} ELSE MainOutcomes(reg) :
            \E hs, expired \in BOOLEAN : CoreExec(o, hs, expired)

SpecMainLive == SpecMain /\ WF_vars(MainReturn) /\ WF_vars(CoreStep)

\* the process has exited after the emulation thread ended
ExitedAfterEnd == process.main = "returned" /\ process.core = "ended"

\* C23: the exit status is 0 when the emulation ended cleanly, by EXIT or by
\* the expiry of --time, and not 0 when the emulation thread ended with a
\* simulator error, of the load or of exec
C23_ExitStatus ==
    ExitedAfterEnd =>
        /\ ~process.reported => process.status = 0
        /\ process.reported => process.status # 0

\* the clean half: every exit of the process is with status 0
ExitStatusZero == process.main = "returned" => process.status = 0

\* the emulation thread ended on an error of exec and the process exited
ExitedAfterExecError == ExitedAfterEnd /\ process.reported /\ err = "runtime"
\* the emulation thread ended on an error of the load and the process exited
ExitedAfterLoadError == ExitedAfterEnd /\ process.reported /\ err = "general"
\* the emulation thread ended cleanly and the process exited
ExitedClean == ExitedAfterEnd /\ ~process.reported

\* the emulation thread has stopped running
CoreStopped == process.core \in {"ended", "panicked"}

\* C34: whenever the emulation thread stops running, by EXIT, the expiry of
\* --time, an error of the load or of exec, or a panic inside the core,
\* simulation_complete is eventually set and main's loop terminates
C34_LoopEnds == CoreStopped ~> (process.complete /\ process.main # "loop")

\* what holds instead: a thread whose compute_thread returned sets the flag
\* and main returns; after a panic the flag is never set
LoopEndsUnlessPanic ==
    /\ (process.core = "ended") ~> (process.complete /\ process.main = "returned")
    /\ [](process.core = "panicked" => ~process.complete)

\* the emulation thread has panicked and main is still in its loop with the
\* window open
PanickedInLoop ==
    /\ process.core = "panicked"
    /\ process.main = "loop"
    /\ process.window
    /\ err = "panic"


----------------------------------------------------------------------------
\* SpecVdg: the display mode from the mode bits of PIA1 and of the SAM

PiaModeBits == 0..31
SamModeBits == 0..7

\* try_from_pia_and_sam that compares the pattern with the CSS bit in it
try_from_pia_and_sam_css(pia0b, samb) ==
    With(pia0b, LAMBDA piab :
    With(BitAnd(piab, 18), LAMBDA gagm0 :
        IF samb = 0 /\ gagm0 = 0 THEN "SG4"
        ELSE IF samb = 0 /\ gagm0 = 2 THEN "SG6"
        ELSE IF samb = 1 /\ piab = 16 THEN "CG1"
        ELSE IF samb = 1 /\ piab = 18 THEN "RG1"
        ELSE IF samb = 2 /\ gagm0 = 0 THEN "SG8"
        ELSE IF samb = 2 /\ piab = 20 THEN "CG2"
        ELSE IF samb = 3 /\ piab = 22 THEN "RG2"
        ELSE IF samb = 4 /\ gagm0 = 0 THEN "SG12"
        ELSE IF samb = 4 /\ piab = 24 THEN "CG3"
        ELSE IF samb = 5 /\ piab = 26 THEN "RG3"
        ELSE IF samb = 6 /\ gagm0 = 0 THEN "SG24"
        ELSE IF samb = 6 /\ piab = 28 THEN "CG6"
        ELSE IF samb = 6 /\ piab = 30 THEN "RG6"
        ELSE "None"))

\* VdgMode::try_from_pia_and_sam: the arms of the match in their order
try_from_pia_and_sam(pia0b, samb) ==
    With(BitAnd(pia0b, 30), LAMBDA piab :
    With(BitAnd(piab, 18), LAMBDA gagm0 :
        IF samb = 0 /\ gagm0 = 0 THEN "SG4"
        ELSE IF samb = 0 /\ gagm0 = 2 THEN "SG6"
        ELSE IF samb = 1 /\ piab = 16 THEN "CG1"
        ELSE IF samb = 1 /\ piab = 18 THEN "RG1"
        ELSE IF samb = 2 /\ gagm0 = 0 THEN "SG8"
        ELSE IF samb = 2 /\ piab = 20 THEN "CG2"
        ELSE IF samb = 3 /\ piab = 22 THEN "RG2"
        ELSE IF samb = 4 /\ gagm0 = 0 THEN "SG12"
        ELSE IF samb = 4 /\ piab = 24 THEN "CG3"
        ELSE IF samb = 5 /\ piab = 26 THEN "RG3"
        ELSE IF samb = 6 /\ gagm0 = 0 THEN "SG24"
        ELSE IF samb = 6 /\ piab = 28 THEN "CG6"
        ELSE IF samb = 6 /\ piab = 30 THEN "RG6"
        ELSE "None"))

\* the rows of the match as a table: the mode, the SAM bits, and the bits
\* of the pattern that are compared with their values
VdgTable ==
    {[mode |-> "SG4",  sam |-> 0, mask |-> 18, bits |-> 0],
     [mode |-> "SG6",  sam |-> 0, mask |-> 18, bits |-> 2],
     [mode |-> "CG1",  sam |-> 1, mask |-> 30, bits |-> 16],
     [mode |-> "RG1",  sam |-> 1, mask |-> 30, bits |-> 18],
     [mode |-> "SG8",  sam |-> 2, mask |-> 18, bits |-> 0],
     [mode |-> "CG2",  sam |-> 2, mask |-> 30, bits |-> 20],
     [mode |-> "RG2",  sam |-> 3, mask |-> 30, bits |-> 22],
     [mode |-> "SG12", sam |-> 4, mask |-> 18, bits |-> 0],
     [mode |-> "CG3",  sam |-> 4, mask |-> 30, bits |-> 24],
     [mode |-> "RG3",  sam |-> 5, mask |-> 30, bits |-> 26],
     [mode |-> "SG24", sam |-> 6, mask |-> 18, bits |-> 0],
     [mode |-> "CG6",  sam |-> 6, mask |-> 30, bits |-> 28],
     [mode |-> "RG6",  sam |-> 6, mask |-> 30, bits |-> 30]}

\* the modes the device-manager test sets, with its sam_bits and pia1_bits
VdgTests ==
    {[mode |-> "SG4",  sam_bits |-> 0, pia1_bits |-> 0],
     [mode |-> "SG6",  sam_bits |-> 0, pia1_bits |-> 16],
     [mode |-> "SG8",  sam_bits |-> 2, pia1_bits |-> 0],
     [mode |-> "SG12", sam_bits |-> 4, pia1_bits |-> 0],
     [mode |-> "SG24", sam_bits |-> 6, pia1_bits |-> 0],
     [mode |-> "CG1",  sam_bits |-> 1, pia1_bits |-> 136],
     [mode |-> "RG1",  sam_bits |-> 1, pia1_bits |-> 144],
     [mode |-> "CG2",  sam_bits |-> 2, pia1_bits |-> 160],
     [mode |-> "RG2",  sam_bits |-> 3, pia1_bits |-> 176],
     [mode |-> "CG3",  sam_bits |-> 4, pia1_bits |-> 192],
     [mode |-> "RG3",  sam_bits |-> 5, pia1_bits |-> 208],
     [mode |-> "CG6",  sam_bits |-> 6, pia1_bits |-> 224],
     [mode |-> "RG6",  sam_bits |-> 6, pia1_bits |-> 240]}

\* Pia1::get_vdg_bits of a side-B data byte
get_vdg_bits(data) == (data \div 8) % 32

InitVdg ==
    /\ \E p \in PiaModeBits, s \in SamModeBits : op = [kind |-> "none", pia |-> p, sam |-> s]
    /\ InitDevices
    /\ InitCore
    /\ ram_top = 32767
    /\ acia = NoAcia
    /\ log = <<>>
    /\ Quiescent

\* the mode is derived, as DeviceManager::update does
TryFromPiaAndSam ==
    /\ op.kind = "none"
    /\ op' = [kind |-> "mode", pia |-> op.pia, sam |-> op.sam,
              mode |-> try_from_pia_and_sam(op.pia, op.sam)]
    /\ UNCHANGED <<busvars, cpuvars, log, lockvars, audiovars, process>>

NextVdg == TryFromPiaAndSam

SpecVdg == InitVdg /\ [][NextVdg]_vars

\* the rows of the table that the pair of bits matches
VdgRows(p, s) == {r \in VdgTable : r.sam = s /\ BitAnd(p, r.mask) = r.bits}

\* the pair with the CSS bit the other way
OtherCss(p) == IF p % 2 = 0 THEN p + 1 ELSE p - 1

\* C24: for every pia in 0..31 and sam in 0..7 the mode does not depend on
\* the CSS bit of pia; it is the test's mode for the bits the device-manager
\* test sets; it is None for a pair that no row of the table matches, so
\* for every pair with sam = 7; and no pair matches rows of two modes
C24_VdgMode ==
    op.kind = "mode" =>
        /\ op.mode = try_from_pia_and_sam(OtherCss(op.pia), op.sam)
        /\ \A t \in VdgTests :
                (t.sam_bits = op.sam /\ get_vdg_bits(t.pia1_bits) = op.pia)
                    => op.mode = t.mode
        /\ VdgRows(op.pia, op.sam) = {} => op.mode = "None"
        /\ op.sam = 7 => op.mode = "None"
        /\ \A r \in VdgRows(op.pia, op.sam) : op.mode = r.mode
        /\ Cardinality(VdgRows(op.pia, op.sam)) <= 1

\* CG1 from the test's bits with the CSS bit set
C24_Witness ==
    /\ op.kind = "mode"
    /\ op.sam = 1
    /\ op.pia = 17
    /\ op.mode = "CG1"


----------------------------------------------------------------------------
\* SpecKeys: the keyboard matrix behind PIA0: the window's keys and mouse
\* buttons arrive in Pia0::update, the program strobes columns and reads rows

\* the (row, column) pairs held down: none, S, and ' (SHIFT with 7)
KeyCoords == {{}, {<<3, 3>>}, {<<6, 7>>, <<4, 7>>}}
\* what the program writes: the control registers as the test sets them,
\* and column masks to the data register of side B
KeyWrites == {<<1, 52>>, <<3, 52>>, <<3, 0>>, <<2, 255>>, <<2, 247>>, <<2, 127>>}
\* the mouse buttons: none, the left, the right
KeyButtons == {<<FALSE, FALSE>>, <<TRUE, FALSE>>, <<FALSE, TRUE>>}

\* the loop of update_keyboard that fills col from the pairs
ColumnsOf(coords) ==
    [i \in 1..8 |->
        (IF <<0, i - 1>> \in coords THEN 1 ELSE 0) + (IF <<1, i - 1>> \in coords THEN 2 ELSE 0)
      + (IF <<2, i - 1>> \in coords THEN 4 ELSE 0) + (IF <<3, i - 1>> \in coords THEN 8 ELSE 0)
      + (IF <<4, i - 1>> \in coords THEN 16 ELSE 0) + (IF <<5, i - 1>> \in coords THEN 32 ELSE 0)
      + (IF <<6, i - 1>> \in coords THEN 64 ELSE 0) + (IF <<7, i - 1>> \in coords THEN 128 ELSE 0)]

\* Pia0::update_keyboard: the matrix is rebuilt and strobed
update_keyboard(p0, coords) == strobe_keyboard([p0 EXCEPT !.col = ColumnsOf(coords)])

\* Pia0::update_joystick with the mouse over the window
update_joystick(p0, sw1, sw2) == [p0 EXCEPT !.joy_sw_1 = sw1, !.joy_sw_2 = sw2]

\* Pia0::update
Pia0Update(p0, coords, sw1, sw2) == update_joystick(update_keyboard(p0, coords), sw1, sw2)

\* PIA1 once a program has made the DAC lines outputs and written 63
Pia1DacHigh == [Pia1New EXCEPT !.ab[1].cr = 4, !.ab[1].ddr = 252, !.ab[1].or = 252]

InitKeys ==
    /\ raw_ram = EmptyRam
    /\ pia0 = Pia0New
    /\ pia1 \in {Pia1New, Pia1DacHigh}
    /\ sam = 0
    /\ chan = <<>>
    /\ InitCore
    /\ ram_top = 32767
    /\ acia = NoAcia
    /\ log = <<>>
    /\ op = [kind |-> "none", reg |-> 0, val |-> 0, fresh |-> FALSE]
    /\ Quiescent

KeysOnly ==
    UNCHANGED <<raw_ram, ram_top, acia, sam, chan, cpuvars, log, lockvars, audiovars,
                process>>

\* DeviceManager::update calls Pia0::update
KeysUpdate(coords, sw1, sw2) ==
    /\ pia0' = Pia0Update(pia0, coords, sw1, sw2)
    /\ op' = [kind |-> "update", reg |-> 0, val |-> 0, fresh |-> FALSE]
    /\ UNCHANGED pia1
    /\ KeysOnly

\* the program writes a register of PIA0
KeysWrite(reg_num, data) ==
    /\ \E r \in {Pia0Write(pia0, pia1, reg_num, data)} :
            /\ pia0' = r.pia0
            /\ pia1' = r.pia1
    /\ op' = [kind |-> "write", reg |-> reg_num, val |-> 0, fresh |-> reg_num = 2]
    /\ KeysOnly

\* the program reads register 0 of PIA0; fresh: the rows are those of a
\* strobe made by a write to register 2 with nothing in between but reads
KeysRead ==
    /\ \E r \in {Pia0Read(pia0, pia1, 0)} :
            /\ pia0' = r.pia0
            /\ pia1' = r.pia1
            /\ op' = [kind |-> "read", reg |-> 0, val |-> r.val, fresh |-> op.fresh]
    /\ KeysOnly

NextKeys ==
    \/ \E coords \in KeyCoords, sw \in KeyButtons : KeysUpdate(coords, sw[1], sw[2])
    \/ \E w \in KeyWrites : KeysWrite(w[1], w[2])
    \/ KeysRead

SpecKeys == InitKeys /\ [][NextKeys]_vars

\* the columns whose side-B line is an output that is low
Selected == {c \in 0..7 : Bit(pia0.ab[2].ddr, c) /\ ~Bit(pia0.ab[2].or, c)}

\* the rows with a key down in a selected column, as a byte
RowsDown ==
    (IF \E c \in Selected : Bit(pia0.col[c + 1], 0) THEN 1 ELSE 0)
  + (IF \E c \in Selected : Bit(pia0.col[c + 1], 1) THEN 2 ELSE 0)
  + (IF \E c \in Selected : Bit(pia0.col[c + 1], 2) THEN 4 ELSE 0)
  + (IF \E c \in Selected : Bit(pia0.col[c + 1], 3) THEN 8 ELSE 0)
  + (IF \E c \in Selected : Bit(pia0.col[c + 1], 4) THEN 16 ELSE 0)
  + (IF \E c \in Selected : Bit(pia0.col[c + 1], 5) THEN 32 ELSE 0)
  + (IF \E c \in Selected : Bit(pia0.col[c + 1], 6) THEN 64 ELSE 0)
  + (IF \E c \in Selected : Bit(pia0.col[c + 1], 7) THEN 128 ELSE 0)

\* the rows the fire buttons pull down
ButtonRows ==
    BitOr(IF pia0.joy_sw_1 THEN 3 ELSE 0, IF pia0.joy_sw_2 THEN 12 ELSE 0)

\* the test's set-up: side B all outputs, the data registers selected
Scanning ==
    /\ pia0.ab[2].ddr = 255
    /\ pr_selected(pia0.ab[1])
    /\ pr_selected(pia0.ab[2])

\* register 0 was read right after a strobe by the program
ScanRead == op.kind = "read" /\ op.fresh /\ Scanning

\* the DAC is above the joystick axis: the comparator bit reads 0
DacAbove ==
    Pia1Read(pia1, 0).val \div 4 > (IF pia0.ab[1].c2 THEN pia0.joy_y ELSE pia0.joy_x)

StrobedCols == Not8(read_output(pia0.ab[2]))

\* the rows a fire button would pull down if its lines were masked by the
\* columns being strobed
ButtonRowsMasked ==
    BitOr(IF pia0.joy_sw_1 THEN BitAnd(3, Not8(StrobedCols)) ELSE 0,
          IF pia0.joy_sw_2 THEN BitAnd(12, Not8(StrobedCols)) ELSE 0)

\* C37: with fire button 1 (2) down a strobe clears bits 0-1 (2-3) of the
\* side-A input register only at the bit positions whose column is not
\* being strobed; at a position whose column is strobed the register has
\* the keyboard's result
C37_ButtonMasked ==
    (op.kind = "write" /\ op.reg = 2) =>
        pia0.ab[1].ir = Not8(BitOr(RowsDown, ButtonRowsMasked))

\* a fire button that is down clears both of its bits at every strobe,
\* whichever columns are strobed
ButtonRowsUnmasked ==
    (op.kind = "write" /\ op.reg = 2) =>
        /\ pia0.joy_sw_1 => BitAnd(pia0.ab[1].ir, 3) = 0
        /\ pia0.joy_sw_2 => BitAnd(pia0.ab[1].ir, 12) = 0
        /\ \A r \in 0..7 : ~Bit(ButtonRows, r) => (Bit(pia0.ab[1].ir, r) <=> ~Bit(RowsDown, r))

\* column 3 alone is strobed with no key down in it and button 2 down: bit 3
\* of the input register is clear along with bit 2
ButtonOnStrobedColumn ==
    /\ op.kind = "write" /\ op.reg = 2
    /\ pia0.joy_sw_2 /\ ~pia0.joy_sw_1
    /\ Selected = {3}
    /\ RowsDown = 0
    /\ pia0.ab[1].ir = 243

\* no column of a button is strobed: the button's rows are low, as masked
ButtonOffStrobedColumn ==
    /\ op.kind = "write" /\ op.reg = 2
    /\ pia0.joy_sw_1 /\ ~pia0.joy_sw_2
    /\ Selected = {7}
    /\ pia0.ab[1].ir = Not8(BitOr(RowsDown, 3))


----------------------------------------------------------------------------
\* SpecRam: writes and reads at and below ram_top, no ACIA configured

\* the last byte of RAM by default and the first of the ROM shadow, the end
\* of the RAM/ROM window, a PIA0 register, an address that nothing decodes
\* (0xFF41), and the reset vector
RamAddrs == {32767, 32768, 65279, 65282, 65345, 65534}
RamAccess == {"Program", "SystemStack", "System"}

InitRam ==
    /\ InitDevices
    /\ InitCore
    /\ ram_top \in RamTops
    /\ acia = NoAcia
    /\ log = <<>>
    /\ op = NoOp
    /\ Quiescent

NextRam ==
    \/ \E at \in RamAccess, addr \in RamAddrs, data \in TestBytes : BusWrite(at, addr, data)
    \/ \E addr \in RamAddrs : BusRead("Generic", addr)

SpecRam == InitRam /\ [][NextRam]_vars

\* the step is a write of op'.data at op'.addr after which every read8 of
\* that address returns the byte, and which has changed that byte of memory
\* and nothing else
StoresOneByte ==
    /\ \A r \in AccessTypes : read_u8(Machine', r, op'.addr).val = op'.data
    /\ raw_ram' = RamSet(raw_ram, op'.addr, op'.data)
    /\ pia0' = pia0 /\ pia1' = pia1 /\ sam' = sam /\ chan' = chan

\* C26: with no ACIA configured, for every address a in [0, ram_top], every
\* byte b and all access types w and r, write8(w, a, b) followed by
\* read8(r, a) returns b, and the write changes no other byte of memory and
\* no peripheral state
C26_RamReadBack ==
    [][(op'.kind = "write" /\ op'.addr <= ram_top) => StoresOneByte]_vars

\* C26 for the addresses of the RAM/ROM window: a at most ram_top and at
\* most 0xFEFF
C26_RamReadBackAmended ==
    [][(op'.kind = "write" /\ op'.addr <= ram_top /\ op'.addr <= 65279) => StoresOneByte]_vars

\* a write from the system stack to 0x8000, below a raised ram_top, is kept
C26_Witness ==
    /\ op.kind = "write" /\ op.at = "SystemStack"
    /\ op.addr = 32768 /\ ram_top = 65535
    /\ RamGet(raw_ram, 32768) = op.data /\ op.data # 0


----------------------------------------------------------------------------
\* SpecVsync: exec_one with hsync ticks of which some are vsync ticks too

\* what the instruction at PC can be: NOP, ANDCC #$AF, or a store that
\* enables the IRQ of hsync (PIA0 CRA) or of vsync (PIA0 CRB)
TickOutcomes(r) ==
    {Plain(r), [Plain(r) EXCEPT !.new_ctx.cc = BitAnd(r.cc, 175)],
     Store(r, 65281, 1, 1), Store(r, 65283, 1, 1)}

NextVsync ==
    \E o \in IF in_cwai \/ in_sync THEN {Plain(reg)} ELSE TickOutcomes(reg) :
        \E hs, vs \in BOOLEAN : ExecOne(o, hs, hs /\ vs)

SpecVsync == InitCpu /\ [][NextVsync]_vars

\* the step just made held an hsync tick at which the vsync period had elapsed
VsyncTick == op.kind = "exec_one" /\ op.hs /\ op.vs

\* side B of PIA0 after vsync_irq has run on it: C1 is high, unless the
\* enabled interrupt has consumed it, and the flag of C1 is set in CR
VsyncDelivered ==
    /\ pia0.ab[2].c1 \/ Bit(pia0.ab[2].cr, 0)
    /\ Bit(pia0.ab[2].cr, 7)

\* C27: at every hsync tick at which a vsync period has elapsed the vsync
\* tick is delivered to PIA0 (side-B C1 is raised and bit 7 of side B's CR
\* is set), whether or not the hsync tick of the step produced an IRQ
C27_VsyncTick == VsyncTick => VsyncDelivered

\* the same for the ticks at which the IRQ of hsync is not enabled
VsyncTickNoHsyncIrq == (VsyncTick /\ ~Bit(pia0.ab[1].cr, 0)) => VsyncDelivered

\* a vsync tick in a step whose hsync tick produced an IRQ
VsyncTickAfterIrq == VsyncTick /\ Bit(pia0.ab[1].cr, 0)

-----------------------------------------------------------------------------
(* The sync flags: the runtime ticks hsync and vsync into PIA0 (runtime.rs, *)
(* exec_one) while a program writes and reads the two control registers.   *)

\* the control registers of PIA0: side A (hsync) and side B (vsync)
FlagRegs == {1, 3}

\* control bytes a program writes: interrupt off, on, on with the data
\* register selected
FlagControls == {0, 1, 53}

InitFlags ==
    /\ raw_ram = EmptyRam
    /\ pia0 = Pia0New
    /\ pia1 = Pia1New
    /\ sam = 0
    /\ chan = <<>>
    /\ InitCore
    /\ ram_top = 32767
    /\ acia = NoAcia
    /\ log = <<>>
    /\ op = [kind |-> "none", reg |-> 0, val |-> 0, irq |-> FALSE]
    /\ Quiescent

\* exec_one's hsync tick
FlagsHsync ==
    /\ \E r \in {hsync_irq(pia0)} :
            /\ pia0' = r.pia0
            /\ op' = [kind |-> "tick", reg |-> 1, val |-> 0, irq |-> r.val]
    /\ UNCHANGED pia1
    /\ KeysOnly

\* exec_one's vsync tick
FlagsVsync ==
    /\ \E r \in {vsync_irq(pia0)} :
            /\ pia0' = r.pia0
            /\ op' = [kind |-> "tick", reg |-> 3, val |-> 0, irq |-> r.val]
    /\ UNCHANGED pia1
    /\ KeysOnly

\* the program writes a control register of PIA0
FlagsWrite(reg_num, data) ==
    /\ \E r \in {Pia0Write(pia0, pia1, reg_num, data)} :
            /\ pia0' = r.pia0
            /\ pia1' = r.pia1
    /\ op' = [kind |-> "write", reg |-> reg_num, val |-> data, irq |-> FALSE]
    /\ KeysOnly

\* the program reads a control register of PIA0
FlagsRead(reg_num) ==
    /\ \E r \in {Pia0Read(pia0, pia1, reg_num)} :
            /\ pia0' = r.pia0
            /\ pia1' = r.pia1
            /\ op' = [kind |-> "read", reg |-> reg_num, val |-> r.val, irq |-> FALSE]
    /\ KeysOnly

NextFlags ==
    \/ FlagsHsync
    \/ FlagsVsync
    \/ \E reg_num \in FlagRegs, data \in FlagControls : FlagsWrite(reg_num, data)
    \/ \E reg_num \in FlagRegs : FlagsRead(reg_num)

SpecFlags == InitFlags /\ [][NextFlags]_vars

\* the side of PIA0 behind a control register
FlagSide(p0, reg_num) == p0.ab[SideOf(reg_num)]

\* the step is a tick into the side of reg_num
TickInto(reg_num) == op'.kind = "tick" /\ op'.reg = reg_num

\* C29: every call of hsync_irq, and every call of vsync_irq, leaves bit 7
\* of the side's control register set, also with the interrupt disabled in
\* CR bit 0, so that a program polling the register sees the flag again
\* after each tick
C29_FlagAfterTick ==
    [][\A reg_num \in FlagRegs :
            TickInto(reg_num) => Bit(FlagSide(pia0', reg_num).cr, 7)]_vars

\* what holds instead: a tick that finds C1 low leaves the flag set, and a
\* tick that finds C1 high leaves the register as it was
FlagAfterRisingTick ==
    [][\A reg_num \in FlagRegs :
            TickInto(reg_num) =>
                /\ ~FlagSide(pia0, reg_num).c1 => Bit(FlagSide(pia0', reg_num).cr, 7)
                /\ FlagSide(pia0, reg_num).c1 =>
                        FlagSide(pia0', reg_num).cr = FlagSide(pia0, reg_num).cr]_vars

\* with the interrupt disabled the flag was read, and a tick after the read
\* has left it clear
FlagLostAfterRead ==
    /\ op.kind = "tick"
    /\ op.reg = 1
    /\ ~op.irq
    /\ pia0.ab[1].c1
    /\ ~Bit(pia0.ab[1].cr, 0)
    /\ ~Bit(pia0.ab[1].cr, 7)

\* a tick raised the IRQ while the flag stayed clear: the interrupt was
\* enabled after a tick had left C1 high
IrqWithoutFlag ==
    /\ op.kind = "tick"
    /\ op.irq
    /\ ~Bit(FlagSide(pia0, op.reg).cr, 7)

-----------------------------------------------------------------------------
(* The ROM shadow during execution: a program whose stack pointer is in    *)
(* the ROM-shadow range runs stores, SWI2 and CWAI while the hsync tick    *)
(* and the cartridge raise interrupts (runtime.rs, exec_one).  The pushes  *)
(* of interrupt entry go through system_psh.                               *)

\* the last address of the range decoded as memory (memory.rs, _write_u8)
RomShadowEnd == 65279

\* the ROM-shadow range of the machine
RomShadow == (ram_top + 1)..RomShadowEnd

\* an address of the ROM shadow a program stores to
ShadowCell == 40960

\* the stack pointer at the start, in the ROM shadow
ShadowTop == 36896

\* the bytes of stack in the ROM shadow after which the run is cut off
MaxShadowDepth == 16

\* the instructions of Outcomes and a 16-bit store into the ROM shadow
ShadowOutcomes(r) == Outcomes(r) \cup {Store(r, ShadowCell, 4660, 2)}

InitShadow ==
    /\ raw_ram = LoadedRam
    /\ pia0 = Pia0New
    /\ pia1 = Pia1New
    /\ sam = 0
    /\ chan = <<>>
    /\ ram_top = 32767
    /\ acia = NoAcia
    /\ reg = [ProgramRegs EXCEPT !.s = ShadowTop]
    /\ in_cwai = FALSE
    /\ in_sync = FALSE
    /\ cart_pending = TRUE
    /\ program_start = 256
    /\ faulted = FALSE
    /\ reset_vector = NoVector
    /\ err = "ok"
    /\ log = <<>>
    /\ op = [kind |-> "none"]
    /\ Quiescent

NextShadow ==
    /\ ShadowTop - reg.s < MaxShadowDepth
    /\ \E o \in IF in_cwai \/ in_sync THEN {Plain(reg)} ELSE ShadowOutcomes(reg) :
            \E hs \in BOOLEAN : ExecOne(o, hs, FALSE)

SpecShadow == InitShadow /\ [][NextShadow]_vars

\* the addresses of the ROM shadow whose byte the step changes; a byte that
\* is in neither map is zero before and after
ShadowChanged ==
    {a \in (DOMAIN raw_ram \cup DOMAIN raw_ram') \cap RomShadow :
        RamGet(raw_ram', a) # RamGet(raw_ram, a)}

\* C30: during execution no byte of the ROM-shadow range (ram_top, 0xFEFF]
\* changes: every store of the running CPU into the range is dropped, the
\* register pushes of interrupt entry and of CWAI with S in the range
\* included
C30_RomShadowKept == [][ShadowChanged = {}]_vars

\* what holds instead: the bytes of the ROM shadow that a step changes are
\* bytes it pushed, between the new S and the old; a store of the program
\* into the range changes nothing
ShadowChangedByPush ==
    [][\A a \in ShadowChanged : reg'.s <= a /\ a < reg.s]_vars

\* interrupt entry has pushed CC, with E set, into the ROM shadow
ShadowPushed ==
    /\ op.kind = "exec_one"
    /\ reg.s < op.reg.s
    /\ reg.s \in RomShadow
    /\ RamGet(raw_ram, reg.s) >= 128

\* CWAI has pushed the registers into the ROM shadow
ShadowPushedByCwai == ShadowPushed /\ op.o.meta = "CWAI" /\ in_cwai

\* the program's store into the ROM shadow was dropped
ShadowStoreDropped ==
    /\ op.kind = "exec_one"
    /\ ~op.in_cwai
    /\ ~op.in_sync
    /\ op.o.writes # <<>>
    /\ op.o.writes[1].addr = ShadowCell
    /\ RamGet(raw_ram, ShadowCell) = 0
    /\ RamGet(raw_ram, ShadowCell + 1) = 0

-----------------------------------------------------------------------------
(* The order of the samples: the pipeline thread fills source buffers with *)
(* samples numbered in the order it writes them and queues them as full;   *)
(* the device calls the callback on slices of any length.  op keeps the    *)
(* number of samples written and the samples the callback has copied to    *)
(* the output, in the order of the frames.                                 *)

\* the samples the pipeline writes in a run
MaxWritten == 8

OrderFrames == 1..3

\* the buffer b filled up by write_next_sample with the samples after n
RECURSIVE Filled(_, _)
Filled(b, n) ==
    IF capacity_remaining(b) = 0 THEN b ELSE Filled(write_next_sample(b, n + 1), n + 1)

InitOrder ==
    /\ InitDevices
    /\ InitCore
    /\ ram_top = 32767
    /\ acia = NoAcia
    /\ log = <<>>
    /\ op = [kind |-> "order", written |-> 0, emitted |-> <<>>, uniform |-> TRUE]
    /\ locks = NoLocks
    /\ pool = PoolNew
    /\ pipe = PipeNew
    /\ \E channels \in {1, 2} : cb = [CbNew EXCEPT !.channels = channels]
    /\ out = <<>>
    /\ sndr = TRUE
    /\ process = ProcessIdle

\* the pipeline checks out an empty buffer and writes samples until
\* write_sample finds it full
OrderFill ==
    /\ pipe.buffer_opt = NoBuf
    /\ op.written + BufferFrames <= MaxWritten
    /\ \E g \in {get_empty_buffer(pool)} :
            /\ g.buf # NoBuf
            /\ pool' = g.pool
            /\ pipe' = [pipe EXCEPT !.buffer_opt = Filled(g.buf, op.written)]
    /\ op' = [op EXCEPT !.written = @ + BufferFrames]
    /\ UNCHANGED <<chan, cb, out, sndr>>
    /\ SoundOnly

\* and returns it to the pool as full
OrderPut ==
    /\ pipe.buffer_opt # NoBuf
    /\ pool' = put_full_buffer(pool, pipe.buffer_opt)
    /\ pipe' = [pipe EXCEPT !.buffer_opt = NoBuf]
    /\ UNCHANGED <<chan, cb, out, op, sndr>>
    /\ SoundOnly

\* the frames from..(to - 1) of the slice o: the first channel of each, and
\* whether every channel of each frame holds the same sample
FramesOf(o, channels, from, to) ==
    [i \in 1..(to - from) |-> o[(from + i - 1) * channels + 1]]

Uniform(o, channels, from, to) ==
    \A f \in from..(to - 1) : \A k \in 1..channels : o[f * channels + k] = o[f * channels + 1]

\* the callback has run from the top of its loop in c on the slice o
OrderStep(c, o) ==
    /\ CallbackStep(c, o)
    /\ op' = [op EXCEPT
                !.emitted = @ \o FramesOf(out', c.channels, c.sample_num, cb'.sample_num),
                !.uniform = @ /\ Uniform(out', c.channels, c.sample_num, cb'.sample_num)]

\* the device calls the callback on a slice of frames frames
OrderCallback(frames) ==
    /\ cb.pc = "idle"
    /\ OrderStep([cb EXCEPT !.sample_num = 0, !.starved = FALSE],
                 [i \in 1..(frames * cb.channels) |-> Stale])
    /\ UNCHANGED <<chan, pipe, sndr>>
    /\ SoundOnly

\* the callback goes round its outer loop
OrderAgain ==
    /\ cb.pc = "top"
    /\ OrderStep(cb, out)
    /\ UNCHANGED <<chan, pipe, sndr>>
    /\ SoundOnly

NextOrder ==
    \/ OrderFill
    \/ OrderPut
    \/ \E frames \in OrderFrames : OrderCallback(frames)
    \/ CallbackPutEmpty
    \/ OrderAgain

SpecOrder == InitOrder /\ [][NextOrder]_vars

\* the samples of the buffer b that have not been read
Unread(b) == SubSeq(b.q, b.head + 1, Len(b.q))

\* the samples the callback has still to emit: those of the buffer it has
\* in hand, then those of the full queue in its order
RECURSIVE UnreadOf(_)
UnreadOf(bufs) == IF bufs = <<>> THEN <<>> ELSE Unread(Head(bufs)) \o UnreadOf(Tail(bufs))

ToEmit == Unread(cb.buf_opt) \o Unread(cb.buf) \o UnreadOf(pool.full)

\* C32: the callback emits the samples in exactly the order the pipeline
\* wrote them: full buffers are consumed in the order they were queued, each
\* sample is emitted once and copied to every channel of one frame, a
\* partly read buffer is kept for the next invocation, and a drained buffer
\* is back in the empty queue cleared
C32_InOrder ==
    /\ op.emitted \o ToEmit = [i \in 1..(Len(op.emitted) + Len(ToEmit)) |-> i]
    /\ op.uniform
    /\ \A i \in 1..Len(pool.empty) : pool.empty[i].q = <<>> /\ pool.empty[i].head = 0

\* the callback has emitted two buffers and the first sample of a third in
\* two-channel frames, has returned with the third buffer in hand, and a
\* drained buffer is back in the empty queue
C32_Witness ==
    /\ cb.pc = "idle"
    /\ cb.channels = 2
    /\ Len(op.emitted) = 2 * BufferFrames + 1
    /\ cb.buf_opt # NoBuf
    /\ cb.buf_opt.head = 1
    /\ Len(pool.empty) >= 1

-----------------------------------------------------------------------------
(* The VRAM window: a program writes the SAM's address range and the main  *)
(* thread runs DeviceManager::update.  op keeps the Vdg as the last update *)
(* left it; a panic of update ends the main thread.                        *)

\* VRAM_SIZE: (SCREEN_DIM_X * SCREEN_DIM_Y) / 8
VRAM_SIZE == 6144

\* the SAM bits a program sets and clears: bit 0 of the mode and the bits
\* 0, 2, 4, 5 and 6 of the address offset
VramIndexes == {0, 1, 6, 7, 10, 11} \cup 14..19

\* Vdg::with_ram as DeviceManager::new calls it
VdgNew == [mode |-> "SG4", vram_offset |-> 0, dirty |-> TRUE]

\* Sam::get_vdg_bits and Sam::get_vram_start
sam_vdg_bits(config) == BitAnd(config, 7)
get_vram_start(config) == (512 * (BitAnd(config, 1016) \div 8)) % 65536

\* get_vram_start from the offset field alone, without its multiplication
get_vram_start_field(config) == BitAnd(config, 1016) \div 8

\* Vdg::set_mode
set_mode(v, mode) == IF v.mode # mode THEN [v EXCEPT !.dirty = TRUE, !.mode = mode] ELSE v

\* Vdg::set_vram_offset; st is "panic" when the check fails
set_vram_offset(v, vram_offset) ==
    IF vram_offset + VRAM_SIZE > RamLen THEN [vdg |-> v, st |-> "panic"]
    ELSE IF vram_offset # v.vram_offset
    THEN [vdg |-> [v EXCEPT !.vram_offset = vram_offset, !.dirty = TRUE], st |-> "ok"]
    ELSE [vdg |-> v, st |-> "ok"]

\* DeviceManager::update from the derivation of the mode: the Vdg after it
\* (render clears dirty) and whether it panicked
update_vdg(v, p1, config) ==
    With(try_from_pia_and_sam(get_vdg_bits(read_data(p1.ab[2])), sam_vdg_bits(config)),
         LAMBDA mode :
        IF mode = "None" THEN [vdg |-> v, st |-> "ok", rendered |-> FALSE]
        ELSE With(set_vram_offset(set_mode(v, mode), get_vram_start(config)), LAMBDA r :
                IF r.st = "panic" THEN [vdg |-> r.vdg, st |-> "panic", rendered |-> FALSE]
                ELSE [vdg |-> [r.vdg EXCEPT !.dirty = FALSE], st |-> "ok", rendered |-> TRUE]))

InitVram ==
    /\ InitDevices
    /\ InitCore
    /\ ram_top = 32767
    /\ acia = NoAcia
    /\ log = <<>>
    /\ op = [kind |-> "none", vdg |-> VdgNew, rendered |-> FALSE]
    /\ locks = NoLocks
    /\ pool = PoolNew
    /\ pipe = PipeNew
    /\ cb = CbNew
    /\ out = <<>>
    /\ sndr = TRUE
    /\ process = ProcessStart

\* the program writes an address of the SAM's range
VramSamWrite(index) ==
    /\ process.main = "loop"
    /\ \E m \in {write_u8(Machine, "Generic", 65472 + index, 0)} :
            /\ sam' = m.sam
            /\ raw_ram' = m.raw_ram
    /\ op' = [op EXCEPT !.kind = "sam_write"]
    /\ UNCHANGED <<ram_top, acia, pia0, pia1, chan, cpuvars, log, lockvars, audiovars,
                   process>>

\* the main thread runs DeviceManager::update, no key down
VramUpdate ==
    /\ process.main = "loop"
    /\ pia0' = Pia0Update(pia0, {}, FALSE, FALSE)
    /\ \E r \in {update_vdg(op.vdg, pia1, sam)} :
            /\ op' = [kind |-> "update", vdg |-> r.vdg, rendered |-> r.rendered]
            /\ process' = IF r.st = "panic" THEN [process EXCEPT !.main = "panicked"]
                          ELSE process
    /\ UNCHANGED <<raw_ram, ram_top, acia, pia1, sam, chan, cpuvars, log, lockvars, audiovars>>

NextVram ==
    \/ \E index \in VramIndexes : VramSamWrite(index)
    \/ VramUpdate

SpecVram == InitVram /\ [][NextVram]_vars

\* C35: for every SAM configuration reachable through SAM writes
\* DeviceManager::update completes without panicking: the VRAM start fits in
\* 16 bits and VRAM start + VRAM_SIZE does not exceed the length of the RAM
C35_UpdateCompletes ==
    /\ process.main # "panicked"
    /\ 512 * get_vram_start_field(sam) < 65536
    /\ 512 * get_vram_start_field(sam) + VRAM_SIZE <= RamLen

\* what holds instead: the VRAM start fits in 16 bits; update panics exactly
\* when the mode is valid and the VRAM window runs past the RAM, and the
\* window it has rendered lies inside the RAM
UpdatePanicsPastRam ==
    /\ 512 * get_vram_start_field(sam) < 65536
    /\ process.main = "panicked"
        <=> /\ op.kind = "update"
            /\ get_vram_start(sam) + VRAM_SIZE > RamLen
            /\ try_from_pia_and_sam(get_vdg_bits(read_data(pia1.ab[2])),
                                    sam_vdg_bits(sam)) # "None"
    /\ op.rendered => op.vdg.vram_offset + VRAM_SIZE <= RamLen

\* update has panicked on the offset field 117, the first past the RAM
VramPanicked ==
    /\ process.main = "panicked"
    /\ get_vram_start_field(sam) = 117

\* update has rendered the last window that fits
VramRenderedLast ==
    /\ op.kind = "update"
    /\ op.rendered
    /\ op.vdg.vram_offset = 59392


----------------------------------------------------------------------------
\* SpecLoad: a ROM image loaded by load_bin, then load_program of user code

\* a ROM image: its length and the bytes of it that are not zero, by offset;
\* this one is 8 KiB with its first instruction and its reset vector
RomBase == 40960
RomImage == [len |-> 8192, bytes |-> (0 :> 126) @@ (1 :> 160) @@ (2 :> 39)
                                      @@ (8190 :> 160) @@ (8191 :> 39)]

\* Core::load_bin: the file read over raw_ram from addr on
load_bin(ram, image, addr) ==
    [x \in (DOMAIN ram \ (addr..(addr + image.len - 1)))
                \cup {addr + o : o \in DOMAIN image.bytes} |->
        IF x - addr \in DOMAIN image.bytes THEN image.bytes[x - addr] ELSE ram[x]]

\* the objects of a program's lines: an address and the bytes assembled there
ObjAddrs == {256, 40960, 49149, 65535}
ObjData == {<<18>>, <<52, 86>>}
MaxObjects == 2
Objects == [addr : ObjAddrs, data : ObjData]
LoadPrograms == UNION {[1..n -> Objects] : n \in 0..MaxObjects}

\* the loop of load_program over the lines that have an object
RECURSIVE load_lines(_, _, _)
load_lines(m, lines, extent) ==
    IF lines = <<>> THEN [m |-> m, st |-> "ok", extent |-> extent]
    ELSE
    With(Head(lines), LAMBDA bob :
        IF Len(bob.data) + bob.addr > RamLen
        THEN [m |-> m, st |-> "memory", extent |-> extent]
        ELSE load_lines([m EXCEPT !.raw_ram = CopyData(m.raw_ram, bob.addr, bob.data)],
                        Tail(lines), extent + Len(bob.data)))

\* Core::load_program: the reset vector is zeroed through the bus, then the
\* objects are copied to raw_ram
load_program(m, program) == load_lines(force_reset_vector(m, 0), program, 0)

InitLoad ==
    /\ \E program \in LoadPrograms :
            op = [kind |-> "none", program |-> program, rom |-> FALSE, loaded |-> FALSE,
                  before |-> EmptyRam, st |-> "none",
                  at |-> "none", addr |-> 0, val |-> 0]
    /\ InitDevices
    /\ InitCore
    /\ ram_top = 32767
    /\ acia = NoAcia
    /\ log = <<>>
    /\ Quiescent

\* compute_thread loads the ROMs of the configuration before any code
LoadRom ==
    /\ op.kind = "none"
    /\ raw_ram' = load_bin(raw_ram, RomImage, RomBase)
    /\ op' = [op EXCEPT !.kind = "load_bin", !.rom = TRUE]
    /\ UNCHANGED <<ram_top, acia, pia0, pia1, sam, chan, log, cpuvars, lockvars,
                   audiovars, process>>

\* then the code, once
LoadProgram ==
    /\ ~op.loaded
    /\ \E r \in {load_program(Machine, op.program)} :
            /\ SetBus(r.m)
            /\ op' = [op EXCEPT !.kind = "load_program", !.loaded = TRUE,
                                !.before = raw_ram, !.st = r.st]
    /\ UNCHANGED cpuvars

LoadAccess == {"Program", "System"}
LoadReadAddrs == {256, 40960, 49150, 65534, 65535}

\* a read8 through the bus after the load
LoadRead(at, addr) ==
    /\ op.loaded
    /\ \E r \in {read_u8(Machine, at, addr)} :
            /\ SetBus(r.m)
            /\ op' = [op EXCEPT !.kind = "read", !.at = at, !.addr = addr, !.val = r.val]
    /\ UNCHANGED cpuvars

NextLoad ==
    \/ LoadRom
    \/ LoadProgram
    \/ \E at \in LoadAccess, addr \in LoadReadAddrs : LoadRead(at, addr)

SpecLoad == InitLoad /\ [][NextLoad]_vars

\* the addresses the objects of a program cover
Covered(program) ==
    UNION {p.addr..(p.addr + Len(p.data) - 1) : p \in {program[i] : i \in DOMAIN program}}

\* the addresses where two memories differ
Differing(a, b) == {x \in DOMAIN a \cup DOMAIN b : RamGet(a, x) # RamGet(b, x)}

\* the two bytes the reset vector is stored in
ResetVectorBytes == {49150, 49151}

\* C36: load_program changes only the bytes the program's objects cover;
\* every other byte of memory, the reset vector of a ROM loaded earlier
\* included, is after the call what it was before
C36_LoadFrame ==
    op.loaded => Differing(raw_ram, op.before) \subseteq Covered(op.program)

\* outside the objects load_program changes the two bytes of the reset
\* vector and nothing else, and it leaves them zero unless an object covers
\* them
LoadFrameButVector ==
    op.loaded =>
        /\ Differing(raw_ram, op.before) \subseteq Covered(op.program) \cup ResetVectorBytes
        /\ \A a \in ResetVectorBytes \ Covered(op.program) : RamGet(raw_ram, a) = 0

\* a program that lies outside the ROM was loaded after it, and the reset
\* read its vector as zero
RomVectorCleared ==
    /\ op.kind = "read"
    /\ op.rom
    /\ op.st = "ok"
    /\ Covered(op.program) = 256..257
    /\ op.at = "System"
    /\ op.addr = 65534
    /\ op.val = 0
    /\ RamGet(op.before, 49150) = 160

\* a program replaced a segment of the ROM and the rest of the ROM's first
\* bytes stayed
RomSegmentReplaced ==
    /\ op.loaded
    /\ op.rom
    /\ Covered(op.program) = {40960}
    /\ RamGet(raw_ram, 40960) = 18
    /\ RamGet(raw_ram, 40961) = 160


----------------------------------------------------------------------------
\* SpecPost: LDA with the auto increment, auto decrement and 5-bit offset
\* forms of the indexed mode, the index register at the ends of its range

PostAt == 512
PostData == 256
\* ,R+ ,R++ ,-R ,--R and the offsets 0, 1, 15, -16 and -1, for X, Y, U and S
PostForms == {32 * rr + k : rr \in 0..3, k \in {0, 1, 15, 16, 31, 128, 129, 130, 131}}
PostValues == {0, 1, 2, 15, 256, 32768, 65534, 65535}

\* the register set of the test, the index registers told apart
PostRegs == [ProgramRegs EXCEPT !.s = 23364, !.pc = PostAt]

\* LDA: the byte at the effective address into A, N and Z from it, V clear
eval_lda(ctx, val) ==
    With(cc_set(cc_set(cc_set(ctx, 8, val >= 128), 4, val = 0), 2, FALSE), LAMBDA c :
        [c EXCEPT !.a = val])

\* Core::exec_next of an LDA: the live context of the addressing mode, the
\* evaluation on a copy, and the copy stored to the registers on commit
exec_next_indexed(m, commit, checks) ==
    With(exec_next_fetch(m, checks), LAMBDA r :
        IF r.m.err # "ok" THEN [m |-> r.m, ea |-> 0, new_ctx |-> m.reg]
        ELSE
        With(Opcode(m, m.reg.pc, checks), LAMBDA o :
        With(process_addressing_mode(m, m.reg.pc, opcode_to_flavor(o.op16), o.size, checks),
             LAMBDA p :
        With(read_u8(m, "Generic", p.ea), LAMBDA rd :
        With(eval_lda(r.m.reg, rd.val), LAMBDA ctx :
            [m |-> IF commit THEN [rd.m EXCEPT !.reg = ctx] ELSE rd.m,
             ea |-> p.ea, new_ctx |-> ctx])))))

InitPost ==
    /\ \E pb \in PostForms, v \in PostValues :
            /\ raw_ram = Poke(EmptyRam, <<<<PostAt, 166>>, <<PostAt + 1, pb>>,
                                          <<PostData, 66>>, <<0, 17>>, <<65535, 34>>>>)
            /\ reg = [PostRegs EXCEPT ![IndexRegister(pb)] = v]
            /\ op = [kind |-> "none", pb |-> pb]
    /\ pia0 = Pia0New
    /\ pia1 = Pia1New
    /\ sam = 0
    /\ chan = <<>>
    /\ ram_top = 32767
    /\ acia = NoAcia
    /\ in_cwai = FALSE
    /\ in_sync = FALSE
    /\ cart_pending = FALSE
    /\ program_start = 0
    /\ faulted = FALSE
    /\ reset_vector = NoVector
    /\ err = "ok"
    /\ log = <<>>
    /\ Quiescent

\* exec_next on the instruction at PC, to commit or to list
ExecPost(commit, checks) ==
    /\ op.kind = "none"
    /\ \E r \in {exec_next_indexed(Machine, commit, checks)} :
            /\ SetCore(r.m)
            /\ op' = [kind |-> "exec_next", pb |-> op.pb, commit |-> commit, reg |-> reg,
                      ea |-> r.ea, new_ctx |-> r.new_ctx]

NextPost == \E commit \in BOOLEAN, checks \in BOOLEAN : ExecPost(commit, checks)

SpecPost == InitPost /\ [][NextPost]_vars

\* the 5-bit offset of a post-byte as a signed number
Offset5(pb) == IF pb % 32 >= 16 THEN (pb % 32) - 32 ELSE pb % 32

\* the effective address and the index register's new value the forms
\* give for the value v of the register
PostExpected(pb, v) ==
    CASE pb < 128 -> [ea |-> (v + Offset5(pb) + 65536) % 65536, r |-> v]
      [] pb % 16 = 0 -> [ea |-> v, r |-> (v + 1) % 65536]
      [] pb % 16 = 1 -> [ea |-> v, r |-> (v + 2) % 65536]
      [] pb % 16 = 2 -> [ea |-> (v + 65535) % 65536, r |-> (v + 65535) % 65536]
      [] OTHER -> [ea |-> (v + 65534) % 65536, r |-> (v + 65534) % 65536]

\* C38: for X, Y, U and S at any value, modulo 2^16: ,R+ and ,R++ give
\* EA = R and R' = R + 1 / R + 2; ,-R and ,--R give R' = R - 1 / R - 2 and
\* EA = R'; the 5-bit offset form gives EA = R + the sign-extended offset
\* and leaves R; the registers change only when the instruction commits,
\* and then hold R' and, in A, the byte at EA
C38_IndexedArithmetic ==
    op.kind = "exec_next" =>
        \E rn \in {IndexRegister(op.pb)} :
        \E e \in {PostExpected(op.pb, op.reg[rn])} :
            /\ err = "ok"
            /\ op.ea = e.ea
            /\ op.new_ctx[rn] = e.r
            /\ \A o \in {"x", "y", "u", "s"} \ {rn} : op.new_ctx[o] = op.reg[o]
            /\ op.new_ctx.pc = PostAt + 2
            /\ IF op.commit
               THEN /\ reg = op.new_ctx
                    /\ reg.a = RamGet(raw_ram, IF e.ea >= 65504 THEN e.ea - 16384 ELSE e.ea)
               ELSE reg = op.reg

\* LDA ,X+ with X = 0x0100 and 0x42 there was committed: A = 0x42 and
\* X = 0x0101
C38_Witness ==
    /\ op.kind = "exec_next"
    /\ op.commit
    /\ op.pb = 128
    /\ op.reg.x = 256
    /\ reg.a = 66
    /\ reg.x = 257

\* ,--S wrapped below zero and -1,Y wrapped to 0xFFFF
PostWrapped ==
    /\ op.kind = "exec_next"
    /\ \/ op.pb = 128 + 96 + 3 /\ op.reg.s = 1 /\ op.new_ctx.s = 65535 /\ op.ea = 65535
       \/ op.pb = 32 + 31 /\ op.reg.y = 0 /\ op.ea = 65535 /\ op.new_ctx.y = 0


----------------------------------------------------------------------------
\* SpecFill: one sample through the body of 'get_buffer, with numbers for
\* the data.  Times count in quarters of a sample period; data are in
\* units of 1/DataOne, and the divisions of the sample processing round
\* down where the float arithmetic rounds to nearest

FineDuration == 4
FineFrames == 4
FineBufferDuration == FineFrames * FineDuration
DataOne == 28800
\* the time since the sample last written: below, at and above a sample
\* period, up to and past the buffer's duration, the halves left out
FineElapsed == {e \in 0..(FineBufferDuration + 1) : e % FineDuration # 2}
FineData == {0, DataOne \div 2, DataOne}
\* what the averaging window holds of the samples written before
FineRings == {<<0, 0>>, <<0, 9600>>, <<9600, 9600>>}

\* AvgWindow::avg over the two values of the ring
fine_avg(ring) == (ring[1] + ring[2]) \div 2

\* the pipeline between two samples: the buffer in hand has room for room
\* samples more
FinePipe(ring, room) ==
    [ring |-> ring, last_written |-> fine_avg(ring), gap |-> 0, data |-> 0, room |-> room,
     synth |-> <<>>, exact |-> TRUE]

\* AudioPipeline::write_sample on numbers: gain, limiting, smoothing, the
\* write, and last_written; synth keeps what it was given to write
fine_write_sample(p0, raw, step) ==
    With(p0, LAMBDA p :
    IF p.room = 0 THEN [pipe |-> p, wrote |-> 0]
    ELSE
    With((raw * 19) \div 20, LAMBDA gained :
    With(IF gained > (DataOne * 19) \div 20 THEN (DataOne * 19) \div 20
         ELSE IF gained < 0 - (DataOne * 19) \div 20 THEN 0 - (DataOne * 19) \div 20
         ELSE gained, LAMBDA limited :
        [pipe |-> [p EXCEPT !.ring = <<p.ring[2], limited>>,
                            !.last_written = fine_avg(<<p.ring[2], limited>>),
                            !.gap = @ - step,
                            !.room = @ - 1,
                            !.synth = Append(@, raw)],
         wrote |-> 1])))

\* (period / sample_duration).round().max(1.0)
fine_sample_count(period) ==
    IF (2 * period + FineDuration) \div (2 * FineDuration) < 1 THEN 1
    ELSE (2 * period + FineDuration) \div (2 * FineDuration)

\* the while loop of interpolate_fill: sample.data += delta, then the write
RECURSIVE fine_loop(_, _, _, _)
fine_loop(p0, data, delta, sample_count) ==
    With(p0, LAMBDA p :
    IF sample_count = 0 THEN p
    ELSE With(fine_write_sample(p, data + delta, FineDuration), LAMBDA w :
            IF w.wrote = 0 THEN w.pipe
            ELSE fine_loop(w.pipe, data + delta, delta, sample_count - 1)))

\* interpolate_fill with the whole gap for its period
fine_interpolate_fill_whole(p) ==
    IF p.gap > FineDuration
    THEN With(fine_sample_count(p.gap), LAMBDA count :
            fine_loop(p, p.last_written, (p.data - p.last_written) \div count, count))
    ELSE p

\* AudioPipeline::interpolate_fill on numbers
fine_interpolate_fill(p0) ==
    With(p0, LAMBDA p :
    IF p.gap > FineDuration
    THEN With(IF p.gap - FineDuration > FineBufferDuration THEN FineBufferDuration
              ELSE p.gap - FineDuration, LAMBDA period :
         With(fine_sample_count(period), LAMBDA count :
            fine_loop([p EXCEPT !.exact = @ /\ (p.data - p.last_written) % count = 0,
                                !.gap = IF period = FineBufferDuration THEN period ELSE @],
                      p.last_written, (p.data - p.last_written) \div count, count)))
    ELSE p)

InitFill ==
    /\ \E ring \in FineRings, room \in 0..FineFrames :
            op = [kind |-> "none", pipe |-> FinePipe(ring, room), elapsed |-> 0,
                  start |-> 0, room |-> room, passes |-> 0]
    /\ InitDevices
    /\ InitCore
    /\ ram_top = 32767
    /\ acia = NoAcia
    /\ log = <<>>
    /\ Quiescent

FillOnly ==
    UNCHANGED <<raw_ram, ram_top, acia, pia0, pia1, sam, chan, cpuvars, log, lockvars,
                audiovars, process>>

\* a sample of data d is received elapsed after the time of the last written
FillReceive(elapsed, d) ==
    /\ op.kind = "none"
    /\ op' = [op EXCEPT !.kind = "get_buffer", !.elapsed = elapsed,
                        !.start = op.pipe.last_written,
                        !.pipe = [op.pipe EXCEPT !.gap = elapsed, !.data = d]]
    /\ FillOnly

\* the body of 'get_buffer with a buffer in hand: the fill of the gap, then
\* the sample itself; without room for it the buffer is to be put back
FillPass ==
    /\ op.kind = "get_buffer"
    /\ \E p1 \in {IF op.pipe.gap > FineDuration /\ op.pipe.gap < FineBufferDuration
                  THEN fine_interpolate_fill(op.pipe) ELSE op.pipe} :
       \E w \in {fine_write_sample([p1 EXCEPT !.synth = <<>>], p1.data, p1.gap)} :
            op' = [op EXCEPT !.kind = IF w.wrote = 0 THEN "put" ELSE "written",
                             !.passes = @ + 1,
                             !.pipe = [w.pipe EXCEPT !.synth = p1.synth]]
    /\ FillOnly

\* the buffer goes to the pool and an empty one is taken
FillPut ==
    /\ op.kind = "put"
    /\ op' = [op EXCEPT !.kind = "get_buffer", !.pipe = [op.pipe EXCEPT !.room = FineFrames]]
    /\ FillOnly

NextFill ==
    \/ \E elapsed \in FineElapsed, d \in FineData : FillReceive(elapsed, d)
    \/ FillPass
    \/ FillPut

SpecFill == InitFill /\ [][NextFill]_vars

\* x / y rounded to the nearest whole number, for x >= 0
Rounded(x, y) == (2 * x + y) \div (2 * y)

\* the samples interpolated are k steps of one size from start
Arithmetic(synth, start, end, count) ==
    \A k \in 1..Len(synth) : (synth[k] - start) * count = k * (end - start)

\* the first pass over a received sample is done
FirstPass == op.kind \in {"put", "written"} /\ op.passes = 1

\* the gap is more than a sample period and less than the buffer's duration
InWindow == op.elapsed > FineDuration /\ op.elapsed < FineBufferDuration

FillCount ==
    IF Rounded(op.elapsed - FineDuration, FineDuration) < 1 THEN 1
    ELSE Rounded(op.elapsed - FineDuration, FineDuration)

FillOfTwoPeriods ==
    /\ FirstPass
    /\ op.elapsed = 2 * FineDuration
    /\ op.room = FineFrames
    /\ op.start = 0
    /\ op.pipe.synth = <<DataOne>>
    /\ op.kind = "written"

\* the buffer had room for one sample of a fill of three
FillCutShort ==
    /\ FirstPass
    /\ FillCount = 3
    /\ op.room = 1
    /\ Len(op.pipe.synth) = 1
    /\ op.kind = "put"


----------------------------------------------------------------------------
\* SpecGlyph: draw_char_block on every byte, as ASCII and as raw

BLOCK_DIM_Y == 12
\* the length of FONT_MAP: 64 glyphs of BLOCK_DIM_Y rows
FontLen == 768

NoChar == [some |-> FALSE, font_index |-> 0, inverted |-> FALSE]

\* try_from_ascii that inverts from 0x40 on
try_from_ascii_from40(byte) ==
    CASE byte <= 31 -> [some |-> TRUE, font_index |-> 32 * BLOCK_DIM_Y, inverted |-> byte > 63]
      [] byte <= 63 -> [some |-> TRUE, font_index |-> byte * BLOCK_DIM_Y, inverted |-> byte > 63]
      [] byte <= 127 ->
            [some |-> TRUE, font_index |-> BitAnd(byte, 31) * BLOCK_DIM_Y, inverted |-> byte > 63]
      [] OTHER -> NoChar

\* Char::try_from_ascii
try_from_ascii(byte) ==
    CASE byte <= 31 -> [some |-> TRUE, font_index |-> 32 * BLOCK_DIM_Y, inverted |-> byte > 95]
      [] byte <= 63 -> [some |-> TRUE, font_index |-> byte * BLOCK_DIM_Y, inverted |-> byte > 95]
      [] byte <= 127 ->
            [some |-> TRUE, font_index |-> BitAnd(byte, 31) * BLOCK_DIM_Y, inverted |-> byte > 95]
      [] OTHER -> NoChar

\* Char::try_from_raw
try_from_raw(byte) ==
    CASE byte <= 63 -> [some |-> TRUE, font_index |-> byte * BLOCK_DIM_Y, inverted |-> FALSE]
      [] byte <= 127 ->
            [some |-> TRUE, font_index |-> (byte - 64) * BLOCK_DIM_Y, inverted |-> TRUE]
      [] OTHER -> NoChar

\* Vdg::draw_char_block: the character, its colours, and the rows of
\* FONT_MAP the loop reads; a row past the table is a panic
draw_char_block(glyph, fg_color, bg_color, ascii) ==
    With(IF ascii THEN try_from_ascii(glyph) ELSE try_from_raw(glyph), LAMBDA ch :
        IF ~ch.some
        THEN [st |-> "ok", ch |-> ch, fg |-> fg_color, bg |-> bg_color, rows |-> {}]
        ELSE [st   |-> IF ch.font_index + BLOCK_DIM_Y > FontLen THEN "panic" ELSE "ok",
              ch   |-> ch,
              fg   |-> IF ch.inverted THEN bg_color ELSE fg_color,
              bg   |-> IF ch.inverted THEN fg_color ELSE bg_color,
              rows |-> {ch.font_index + font_line : font_line \in 0..(BLOCK_DIM_Y - 1)}
                            \cap (0..(FontLen - 1))])

InitGlyph ==
    /\ \E glyph \in 0..255, ascii \in BOOLEAN :
            op = [kind |-> "none", glyph |-> glyph, ascii |-> ascii]
    /\ InitDevices
    /\ InitCore
    /\ ram_top = 32767
    /\ acia = NoAcia
    /\ log = <<>>
    /\ Quiescent

\* draw_sg4_block's call for a cell of the text screen
DrawCharBlock ==
    /\ op.kind = "none"
    /\ \E r \in {draw_char_block(op.glyph, "Green", "Black", op.ascii)} :
            op' = [kind |-> "draw", glyph |-> op.glyph, ascii |-> op.ascii, st |-> r.st,
                   ch |-> r.ch, fg |-> r.fg, bg |-> r.bg, rows |-> r.rows]
    /\ UNCHANGED <<raw_ram, ram_top, acia, pia0, pia1, sam, chan, cpuvars, log, lockvars,
                   audiovars, process>>

NextGlyph == DrawCharBlock

SpecGlyph == InitGlyph /\ [][NextGlyph]_vars

\* a byte below 0x80 was drawn
Drawn == op.kind = "draw" /\ op.glyph < 128

\* the glyph selected, as a number of the font
GlyphIndex == op.ch.font_index \div BLOCK_DIM_Y

\* the glyph of an ASCII byte: space below 0x20, the byte itself up to 0x3F,
\* the low five bits from 0x40 on
AsciiGlyph(c) == IF c < 32 THEN 32 ELSE IF c < 64 THEN c ELSE c % 32

\* the glyph is one of the 64 of the font and its twelve rows were read
\* from inside the table
InsideFont ==
    /\ op.st = "ok"
    /\ op.ch.some
    /\ GlyphIndex < 64
    /\ op.rows = (GlyphIndex * 12)..(GlyphIndex * 12 + 11)
    /\ \A i \in op.rows : i < FontLen

UpperCaseNormal ==
    /\ Drawn
    /\ op.ascii
    /\ op.glyph = 65
    /\ GlyphIndex = 1
    /\ ~op.ch.inverted
    /\ op.fg = "Green"

\* the raw byte 0x7F was drawn: the last glyph, its rows the last of the table
RawLastGlyph ==
    /\ Drawn
    /\ ~op.ascii
    /\ op.glyph = 127
    /\ GlyphIndex = 63
    /\ 767 \in op.rows

=============================================================================
